---- MODULE Spec2Model ----
(***************************************************************************)
(* A model of the UBC-Grade-Insight back end: the dataset store on disk    *)
(* (DatasetProcessor), the facade operations addDataset, removeDataset,    *)
(* listDatasets and performQuery (InsightFacade), the two ingesters        *)
(* (InsightFacade.processSectionKind, RoomProcessor.processRoomKind) and   *)
(* the query engine (QueryHelper, QueryEngine).                            *)
(*                                                                         *)
(* A JavaScript string is modelled as a sequence of atoms.  An atom is one *)
(* character ("a", " ", "_", "/", "%", "2", ...) or a word that stands for *)
(* a run of ordinary characters that no operation of the program looks     *)
(* into (".json", "courses", "avg", ...).  A JavaScript value is a record  *)
(* [t |-> its typeof, v |-> its payload].                                  *)
(***************************************************************************)
EXTENDS Integers, Sequences, FiniteSets, TLC

VARIABLES
    disk,       \* the data directory: file name |-> parsed JSON document
    datasets,   \* InsightFacade.datasets, one array per facade instance
    result,     \* the outcome of the last operation (what its promise settled to)
    live,       \* history: id |-> what the last successful add of id stored,
                \* for the ids added and not removed (by a resolved remove) since
    sectionDatasetArray,    \* InsightFacade.sectionDatasetArray, one array per facade instance
    calls       \* the operations in flight: call |-> its arguments, where it stands
                \* and its locals (empty while operations run one after the other)

vars == <<disk, datasets, result, live, sectionDatasetArray, calls>>

----------------------------------------------------------------------------
(* Bounds of the model. *)

\* Most files the data directory holds.
MaxStored == 2
\* Facade instances sharing the data directory.
NumFacades == 2

Facades == 1..NumFacades

\* The dataset ids the operations are called with: the empty string, a string of
\* white space and one with an underscore; an id of ordinary characters; and ids
\* with characters encodeURIComponent escapes: the path separator alone, a
\* trailing space, and a leading path separator.
Ids == {<<>>, <<" ">>, <<"a", "_">>, <<"a">>, <<"/">>, <<"a", " ">>, <<"/", "a">>}

----------------------------------------------------------------------------
(* JavaScript values and strings. *)

Num(n) == [t |-> "number", v |-> n]
Str(s) == [t |-> "string", v |-> s]
Null == [t |-> "null", v |-> 0]
Undefined == [t |-> "undefined", v |-> 0]
NaN == [t |-> "nan", v |-> 0]

\* typeof x (typeof NaN is "number", typeof null is "object").
TypeOf(x) == IF x.t = "nan" THEN "number" ELSE IF x.t \in {"null", "array"} THEN "object" ELSE x.t

\* s.includes(c) for a one-character c.
includes(s, c) == \E i \in 1..Len(s) : s[i] = c

\* The characters String.prototype.trim strips.
WhiteSpace == {" "}

RECURSIVE trimStart(_)
trimStart(s) == IF s # <<>> /\ Head(s) \in WhiteSpace THEN trimStart(Tail(s)) ELSE s

RECURSIVE trimEnd(_)
trimEnd(s) == IF s # <<>> /\ s[Len(s)] \in WhiteSpace THEN trimEnd(SubSeq(s, 1, Len(s) - 1)) ELSE s

trim(s) == trimEnd(trimStart(s))

\* s.startsWith(p)
startsWith(s, p) == Len(s) >= Len(p) /\ SubSeq(s, 1, Len(p)) = p

\* s.endsWith(p)
endsWith(s, p) == Len(s) >= Len(p) /\ SubSeq(s, Len(s) - Len(p) + 1, Len(s)) = p

\* s.split(c): the pieces of s between the occurrences of the character c.
RECURSIVE split(_, _)
split(s, c) ==
    IF ~includes(s, c) THEN <<s>>
    ELSE LET i == CHOOSE k \in 1..Len(s) : s[k] = c /\ \A j \in 1..(k - 1) : s[j] # c
         IN  <<SubSeq(s, 1, i - 1)>> \o split(SubSeq(s, i + 1, Len(s)), c)

\* The elements of a set as a sequence, in some fixed order (fs.readdir's order is
\* not specified; nothing below depends on it).
RECURSIVE SetToSeq(_)
SetToSeq(S) == IF S = {} THEN <<>> ELSE LET x == CHOOSE y \in S : TRUE IN <<x>> \o SetToSeq(S \ {x})

\* How many times x occurs in the sequence s.
Count(s, x) == Cardinality({i \in 1..Len(s) : s[i] = x})

Range(s) == {s[i] : i \in 1..Len(s)}

----------------------------------------------------------------------------
(* DatasetProcessor: the identifier codec and the files of the data directory. *)

\* encodeURIComponent of one character: the unreserved characters (letters, digits,
\* - _ . ! ~ * ' ( )) stay, every other character becomes %XX.
encodeChar(c) ==
    CASE c = " " -> <<"%", "2", "0">>
      [] c = "/" -> <<"%", "2", "F">>
      [] c = "%" -> <<"%", "2", "5">>
      [] OTHER -> <<c>>

RECURSIVE encodeURIComponent(_)
encodeURIComponent(s) == IF s = <<>> THEN <<>> ELSE encodeChar(Head(s)) \o encodeURIComponent(Tail(s))

\* The character a %XX escape stands for.
decodeEscape(h, l) ==
    CASE h = "2" /\ l = "0" -> " "
      [] h = "2" /\ l = "F" -> "/"
      [] h = "2" /\ l = "5" -> "%"
      [] OTHER -> "?"

RECURSIVE decodeURIComponent(_)
decodeURIComponent(s) ==
    IF s = <<>> THEN <<>>
    ELSE IF Head(s) = "%" /\ Len(s) >= 3
         THEN <<decodeEscape(s[2], s[3])>> \o decodeURIComponent(SubSeq(s, 4, Len(s)))
         ELSE <<Head(s)>> \o decodeURIComponent(Tail(s))

encodeDatasetId(id) == encodeURIComponent(id)

decodeDatasetId(encodedId) == decodeURIComponent(encodedId)

\* The file extension, one atom.
JsonExt == <<".json">>

\* path.join(<data directory>, name): the segments of the path below the data
\* directory. path.join normalises the result, so empty segments (a leading, a
\* trailing or a doubled "/") disappear. ("." and ".." are not among Chars.)
joinDataDir(name) == SelectSeq(split(name, "/"), LAMBDA seg : seg # <<>>)

\* The data directory is flat (saveToDisk writes encoded names, which hold no "/"),
\* so a path of two or more segments names no file.
NoFile == <<"<no such file>">>

fileAt(path) == IF Len(path) = 1 THEN path[1] ELSE NoFile

\* An existence check that looks for the file under the id as given.
doesDatasetExistRaw(d, id) == fileAt(joinDataDir(id \o JsonExt)) \in DOMAIN d

\* DatasetProcessor.doesDatasetExist: fs.access of <encoded id>.json
doesDatasetExist(d, id) == fileAt(joinDataDir(encodeDatasetId(id) \o JsonExt)) \in DOMAIN d

\* fs.readdir(data directory)
readdir(d) == SetToSeq(DOMAIN d)

\* DatasetProcessor.getAllDatasetIds
getAllDatasetIds(d) ==
    LET files == SelectSeq(readdir(d), LAMBDA fileName : endsWith(fileName, JsonExt))
    IN  [i \in 1..Len(files) |-> decodeDatasetId(SubSeq(files[i], 1, Len(files[i]) - 1))]

----------------------------------------------------------------------------
(* Numbers and strings. *)

Digits == <<"0", "1", "2", "3", "4", "5", "6", "7", "8", "9">>

isDigit(c) == \E d \in 1..10 : Digits[d] = c

digitValue(c) == (CHOOSE d \in 1..10 : Digits[d] = c) - 1

\* Number.prototype.toString of a natural number.
RECURSIVE numberToString(_)
numberToString(n) == IF n < 10 THEN <<Digits[n + 1]>> ELSE numberToString(n \div 10) \o <<Digits[(n % 10) + 1]>>

RECURSIVE digitsToNumber(_, _)
digitsToNumber(s, acc) == IF s = <<>> THEN acc ELSE digitsToNumber(Tail(s), 10 * acc + digitValue(Head(s)))

\* ToNumber of a string: surrounding white space is ignored, the empty string is 0,
\* a run of digits is its value, anything else is NaN.
stringToNumber(s) ==
    LET t == trim(s)
    IN  IF \A i \in 1..Len(t) : isDigit(t[i]) THEN Num(digitsToNumber(t, 0)) ELSE NaN

\* +x and Number(x)
toNumber(x) ==
    CASE x.t = "number" -> x
      [] x.t = "string" -> stringToNumber(x.v)
      [] x.t = "null" -> Num(0)
      [] OTHER -> NaN

\* x.toString() of a number or a string.
toString(x) == IF x.t = "number" THEN Str(numberToString(x.v)) ELSE x

\* What JSON.parse(JSON.stringify(x)) gives for a value x: NaN is written as null.
jsonValue(x) == IF x.t = "nan" THEN Null ELSE x

\* obj[key] of a parsed JSON object: undefined when the key is absent.
Get(obj, key) == IF key \in DOMAIN obj THEN obj[key] ELSE Undefined

\* JSON.parse(JSON.stringify(row)) of a row object: every field by jsonValue.
jsonRow(row) == [k \in DOMAIN row |-> jsonValue(row[k])]

jsonRows(rows) == [i \in 1..Len(rows) |-> jsonRow(rows[i])]

----------------------------------------------------------------------------
(* The row model (types/Section, types/Room, types/Dataset). *)

SectionFields == {"uuid", "id", "title", "instructor", "dept", "year", "avg", "pass", "fail", "audit"}

RoomFields == {"fullname", "shortname", "number", "name", "address", "lat", "lon", "seats", "type", "furniture", "href"}

\* new Section(uuid, id, title, instructor, dept, year, avg, pass, fail, audit)
Section(uuid, id, title, instructor, dept, year, avg, pass, fail, audit) ==
    [uuid |-> uuid, id |-> id, title |-> title, instructor |-> instructor, dept |-> dept,
     year |-> year, avg |-> avg, pass |-> pass, fail |-> fail, audit |-> audit]

\* new Room(fullname, shortname, number, name, address, lat, lon, seats, type, furniture, href)
Room(fullname, shortname, number, name, address, lat, lon, seats, type, furniture, href) ==
    [fullname |-> fullname, shortname |-> shortname, number |-> number, name |-> name,
     address |-> address, lat |-> lat, lon |-> lon, seats |-> seats, type |-> type,
     furniture |-> furniture, href |-> href]

\* new Dataset(id, content, kind): the rows go to the field named after the kind;
\* the other field stays undefined and JSON.stringify leaves it out.
Dataset(id, content, kind) ==
    IF kind = "sections" THEN [id |-> id, kind |-> kind, sections |-> content]
    ELSE [id |-> id, kind |-> kind, rooms |-> content]

\* Dataset.getContent
getContent(dataset) == IF dataset.kind = "sections" THEN dataset.sections ELSE dataset.rooms

\* DatasetProcessor.saveToDisk: the data directory after writing JSON.stringify(dataset)
\* to <encoded id>.json.
saveToDisk(d, dataset) ==
    LET fileID == encodeDatasetId(dataset.id)
        filePath == fileAt(joinDataDir(fileID \o JsonExt))
        jsonData == Dataset(dataset.id, jsonRows(getContent(dataset)), dataset.kind)
    IN  [f \in DOMAIN d \cup {filePath} |-> IF f = filePath THEN jsonData ELSE d[f]]

\* fs.emptyDir(data directory): the directory without its files.
fsEmptyDir(d) == <<>>

\* fs.ensureDir(data directory): makes the directory when it is missing; the
\* files in it stay.
fsEnsureDir(d) == d

\* fs.remove(path): the data directory without that file; no error when there is none.
fsRemove(d, path) == [f \in DOMAIN d \ {fileAt(path)} |-> d[f]]

----------------------------------------------------------------------------
(* Archives.  A zip archive is modelled by what JSZip.loadAsync gives:        *)
(* [zip |-> whether the content is a readable zip, entries |-> its entries],  *)
(* an entry being [name, dir, data]; data is the parsed form of the file's    *)
(* text (a course file's JSON, or an HTML document).                          *)

strictEquals(x, y) == x.t = y.t /\ x.v = y.v

\* !x of a string or null: the empty string and null are falsy.
truthy(x) == x.t = "string" /\ x.v # <<>>

isNullish(x) == x.t \in {"undefined", "null"}

\* The bijections on 1..n: the orders in which n parallel tasks can complete.
Orders(n) == {p \in [1..n -> 1..n] : \A i, j \in 1..n : p[i] = p[j] => i = j}

RECURSIVE concatAll(_)
concatAll(ss) == IF ss = <<>> THEN <<>> ELSE Head(ss) \o concatAll(Tail(ss))

\* InsightFacade.isBase64: Buffer.from(str, "base64") throws for no string.
isBase64(content) == TRUE

CoursesDir == <<"courses", "/">>

\* InsightFacade.validZip: TRUE when it does not throw.
validZip(zip) ==
    LET rootFolder == SelectSeq(zip.entries, LAMBDA e : e.dir)
        jsonData == SelectSeq(zip.entries, LAMBDA e : ~e.dir /\ startsWith(e.name, CoursesDir))
    IN  ~(Len(rootFolder) > 1 \/ Len(rootFolder) = 0 \/ rootFolder[1].name # CoursesDir \/ Len(jsonData) = 0)

requiredFields == <<"id", "Course", "Title", "Professor", "Subject", "Avg", "Pass", "Fail", "Audit">>

setYear == 1900

\* InsightFacade.processSection: [error |-> TRUE] for a returned InsightError.
processSection(field, year) ==
    IF \E i \in 1..Len(requiredFields) : isNullish(Get(field, requiredFields[i]))
    THEN [error |-> TRUE]
    ELSE IF isNullish(year)
    THEN [error |-> TRUE]
    ELSE [error |-> FALSE,
          section |-> Section(toString(field.id), field.Course, field.Title, field.Professor,
                              field.Subject, toNumber(year), field.Avg, field.Pass, field.Fail,
                              field.Audit)]

\* The year InsightFacade.processJsonData passes for one element of a result array.
yearOf(field) ==
    IF strictEquals(Get(field, "Section"), Str(<<"overall">>)) THEN Num(setYear) ELSE Get(field, "Year")

\* The rows processJsonData pushes for the elements it gets through: all of them,
\* or those before the first element processSection refuses.
RECURSIVE pushedSections(_)
pushedSections(elems) ==
    IF elems = <<>> THEN <<>>
    ELSE LET r == processSection(Head(elems), yearOf(Head(elems)))
         IN  IF r.error THEN <<>> ELSE <<r.section>> \o pushedSections(Tail(elems))

\* InsightFacade.processJsonData on one course file: [ok |-> FALSE] when it throws
\* (unparsable text, no "result" array, an element processSection refuses).
processJsonData(data) ==
    IF ~data.json \/ ~data.hasResult \/ ~data.isArray
    THEN [ok |-> FALSE, pushed |-> <<>>]
    ELSE LET pushed == pushedSections(data.result)
         IN  [ok |-> Len(pushed) = Len(data.result), pushed |-> pushed]

\* The course files processSectionKind hands to processJsonData.
courseFiles(zip) == SelectSeq(zip.entries, LAMBDA e : ~e.dir /\ startsWith(e.name, CoursesDir))

\* InsightFacade.processSectionKind up to the save: the rows of sectionDatasetArray
\* when every file task has completed (in the order `order`), or the rejection.
\* sectionDatasetArray is emptied at the start of every call and read only at its
\* end, so it is a value of the call here.
processSectionRows(content, order) ==
    IF ~isBase64(content) \/ ~content.zip THEN [status |-> "InsightError", rows |-> <<>>]
    ELSE IF ~validZip(content) THEN [status |-> "InsightError", rows |-> <<>>]
    ELSE LET files == courseFiles(content)
             done == [i \in 1..Len(files) |-> processJsonData(files[order[i]].data)]
         IN  IF \E i \in 1..Len(files) : ~done[i].ok
             THEN [status |-> "InsightError", rows |-> <<>>]
             ELSE [status |-> "ok", rows |-> concatAll([i \in 1..Len(files) |-> done[i].pushed])]

----------------------------------------------------------------------------
(* RoomProcessor.  An HTML document is modelled by what the processor reads   *)
(* of it.  index.htm: [tables |-> the tables in document order], a table being*)
(* [rows |-> its tr rows], a row [titleCell, addressCell, fullname, shortname,*)
(* href, address, geo], geo being the geocoder's answer for the row's address *)
(* ("ok", "error" for an {error} reply, "fail" for a failed request or an     *)
(* unparsable reply).  A building page: [roomTable |-> whether a table has the*)
(* four room header cells, rows |-> the tr rows of the first tbody], a row    *)
(* giving for number, seats, furniture, type, href the text found or null.    *)

IndexName == <<"index.htm">>

\* JSZip.file(name): the entry of that name that is no directory, or none.
zipHasFile(zip, name) == \E i \in 1..Len(zip.entries) : zip.entries[i].name = name /\ ~zip.entries[i].dir

zipFile(zip, name) == zip.entries[CHOOSE i \in 1..Len(zip.entries) : zip.entries[i].name = name /\ ~zip.entries[i].dir]

\* RoomProcessor.hasValidBuilding
hasValidBuilding(table) ==
    /\ \E i \in 1..Len(table.rows) : table.rows[i].titleCell
    /\ \E i \in 1..Len(table.rows) : table.rows[i].addressCell

\* RoomProcessor.firstValidTable: the index of the table, 0 for null.
firstValidTable(doc) ==
    IF \E i \in 1..Len(doc.tables) : hasValidBuilding(doc.tables[i])
    THEN CHOOSE i \in 1..Len(doc.tables) :
            /\ hasValidBuilding(doc.tables[i])
            /\ \A j \in 1..(i - 1) : ~hasValidBuilding(doc.tables[j])
    ELSE 0

\* RoomProcessor.parseBuildingRow: "throw" for the InsightError of a failed
\* geocoder call, "null" for a skipped row, else the building.
parseBuildingRow(row) ==
    IF row.titleCell /\ row.addressCell
    THEN CASE row.geo = "fail" -> [out |-> "throw"]
           [] row.geo = "error" -> [out |-> "null"]
           [] OTHER -> [out |-> "building", fullname |-> row.fullname, shortname |-> row.shortname,
                        address |-> row.address, lat |-> Num(49), lon |-> Num(123),
                        buildinghref |-> row.href]
    ELSE [out |-> "null"]

\* furniture.replace(/&amp;/g, "&")
unescapeAmp(s) == [i \in 1..Len(s) |-> IF s[i] = "&amp;" THEN "&" ELSE s[i]]

\* RoomProcessor.parseRoomRow: [error |-> TRUE] when it throws InsightError.
parseRoomRow(row, building) ==
    LET furniture == IF truthy(row.furniture) THEN Str(unescapeAmp(row.furniture.v)) ELSE row.furniture
    IN  IF truthy(row.number) /\ truthy(row.seats) /\ truthy(furniture) /\ truthy(row.type) /\ truthy(row.href)
        THEN [error |-> FALSE,
              room |-> Room(building.fullname, building.shortname, Str(trim(row.number.v)),
                            Str(building.shortname.v \o <<"_">> \o trim(row.number.v)),
                            building.address, building.lat, building.lon,
                            toNumber(Str(trim(row.seats.v))), Str(trim(row.type.v)),
                            Str(trim(furniture.v)), Str(trim(row.href.v)))]
        ELSE [error |-> TRUE]

\* RoomProcessor.parseRooms
parseRooms(doc, building) ==
    LET parsed == [i \in 1..Len(doc.rows) |-> parseRoomRow(doc.rows[i], building)]
    IN  IF \E i \in 1..Len(parsed) : parsed[i].error
        THEN [ok |-> FALSE, rooms |-> <<>>]
        ELSE [ok |-> TRUE, rooms |-> [i \in 1..Len(parsed) |-> parsed[i].room]]

\* RoomProcessor.parseBuildingRooms
parseBuildingRooms(building, data) ==
    IF ~zipHasFile(data, building.buildinghref) THEN [ok |-> TRUE, rooms |-> <<>>]
    ELSE LET doc == zipFile(data, building.buildinghref).data
         IN  IF ~doc.roomTable THEN [ok |-> TRUE, rooms |-> <<>>] ELSE parseRooms(doc, building)

\* RoomProcessor.processRoomKind up to the save: allRooms when every building task
\* has completed (in the order `order`), or the rejection. "Error" is the plain
\* Error of JSZip.loadAsync, which nothing here catches.
processRoomRows(content, order) ==
    IF ~content.zip THEN [status |-> "Error", rows |-> <<>>]
    ELSE IF ~zipHasFile(content, IndexName) THEN [status |-> "InsightError", rows |-> <<>>]
    ELSE LET parsedDoc == zipFile(content, IndexName).data
             validTable == firstValidTable(parsedDoc)
         IN  IF validTable = 0 THEN [status |-> "InsightError", rows |-> <<>>]
             ELSE LET rows == parsedDoc.tables[validTable].rows
                      parsed == [i \in 1..Len(rows) |-> parseBuildingRow(rows[i])]
                      buildings == SelectSeq(parsed, LAMBDA b : b.out = "building")
                      done == [i \in 1..Len(buildings) |-> parseBuildingRooms(buildings[order[i]], content)]
                  IN  IF \E i \in 1..Len(parsed) : parsed[i].out = "throw"
                      THEN [status |-> "InsightError", rows |-> <<>>]
                      ELSE IF \E i \in 1..Len(buildings) : ~done[i].ok
                      THEN [status |-> "InsightError", rows |-> <<>>]
                      ELSE [status |-> "ok", rows |-> concatAll([i \in 1..Len(buildings) |-> done[i].rooms])]

\* How many tasks an add of `content` runs in parallel (course files, or buildings).
parallelTasks(content, kind) ==
    IF ~content.zip THEN 0
    ELSE IF kind = "sections" THEN Len(courseFiles(content))
    ELSE IF ~zipHasFile(content, IndexName) THEN 0
    ELSE LET parsedDoc == zipFile(content, IndexName).data
             validTable == firstValidTable(parsedDoc)
         IN  IF validTable = 0 THEN 0
             ELSE Len(SelectSeq(parsedDoc.tables[validTable].rows,
                                LAMBDA r : parseBuildingRow(r).out = "building"))

----------------------------------------------------------------------------
(* DatasetProcessor: reading the store back. *)

\* DatasetProcessor.parseSectionsDataset (it reads the course code from "ids",
\* a key the stored rows do not have).
parseSectionsDataset(id, sectionsData) ==
    Dataset(id,
            [i \in 1..Len(sectionsData) |->
                LET s == sectionsData[i]
                IN  Section(Get(s, "uuid"), Get(s, "ids"), Get(s, "title"), Get(s, "instructor"),
                            Get(s, "dept"), Get(s, "year"), Get(s, "avg"), Get(s, "pass"),
                            Get(s, "fail"), Get(s, "audit"))],
            "sections")

\* A reader that takes every stored document for a sections dataset.
parseRoomsAsSections(id, roomsData) == parseSectionsDataset(id, roomsData)

\* DatasetProcessor.parseRoomsDataset
parseRoomsDataset(id, roomsData) ==
    Dataset(id,
            [i \in 1..Len(roomsData) |->
                LET r == roomsData[i]
                IN  Room(Get(r, "fullname"), Get(r, "shortname"), Get(r, "number"), Get(r, "name"),
                         Get(r, "address"), Get(r, "lat"), Get(r, "lon"), Get(r, "seats"),
                         Get(r, "type"), Get(r, "furniture"), Get(r, "href"))],
            "rooms")

\* DatasetProcessor.getAllDatasets: every .json file of the directory, parsed.
\* (Every stored kind is Sections or Rooms, so the invalid-kind throw is not taken.)
getAllDatasets(d) ==
    LET files == SelectSeq(readdir(d), LAMBDA fileName : endsWith(fileName, JsonExt))
    IN  [i \in 1..Len(files) |->
            LET parsed == d[files[i]]
            IN  IF parsed.kind = "sections" THEN parseSectionsDataset(parsed.id, parsed.sections)
                ELSE parseRoomsDataset(parsed.id, parsed.rooms)]

\* DatasetProcessor.loadFromDisk: [ok |-> FALSE] when it rejects with InsightError
\* (no such file, or a document without a "sections" array).
loadFromDisk(d, datasetId) ==
    LET fileID == encodeDatasetId(datasetId)
        filePath == fileAt(joinDataDir(fileID \o JsonExt))
    IN  IF filePath \notin DOMAIN d THEN [ok |-> FALSE]
        ELSE LET parsed == d[filePath]
             IN  IF "sections" \notin DOMAIN parsed THEN [ok |-> FALSE]
                 ELSE [ok |-> TRUE,
                       dataset |-> Dataset(datasetId,
                                           [i \in 1..Len(parsed.sections) |->
                                               LET s == parsed.sections[i]
                                               IN  Section(Get(s, "uuid"), Get(s, "id"), Get(s, "title"),
                                                           Get(s, "instructor"), Get(s, "dept"), Get(s, "year"),
                                                           Get(s, "avg"), Get(s, "pass"), Get(s, "fail"),
                                                           Get(s, "audit"))],
                                           "sections")]

----------------------------------------------------------------------------
(* Queries.  A query is a parsed JSON value: an object is the sequence of its *)
(* [k |-> key, val |-> value] members, an array the sequence of its items.    *)

Obj(members) == [t |-> "object", v |-> members]

Arr(items) == [t |-> "array", v |-> items]

\* Boolean(x)
ToBoolean(x) ==
    CASE x.t = "number" -> x.v # 0
      [] x.t = "string" -> x.v # <<>>
      [] x.t \in {"object", "array"} -> TRUE
      [] OTHER -> FALSE

\* "key" in x, for an object x.
hasProp(x, key) == x.t = "object" /\ \E i \in 1..Len(x.v) : x.v[i].k = key

\* x[key] and x?.[key]: undefined when x has no such member.
prop(x, key) == IF hasProp(x, key) THEN x.v[CHOOSE i \in 1..Len(x.v) : x.v[i].k = key].val ELSE Undefined

\* Object.keys(x) and Object.values(x) of an object, an array, a string or a number.
objectKeys(x) ==
    CASE x.t = "object" -> [i \in 1..Len(x.v) |-> x.v[i].k]
      [] x.t \in {"array", "string"} -> [i \in 1..Len(x.v) |-> numberToString(i - 1)]
      [] OTHER -> <<>>

objectValues(x) ==
    CASE x.t = "object" -> [i \in 1..Len(x.v) |-> x.v[i].val]
      [] x.t = "array" -> x.v
      [] x.t = "string" -> [i \in 1..Len(x.v) |-> Str(<<x.v[i]>>)]
      [] OTHER -> <<>>

\* The strings of an array of strings.
strings(arr) == [i \in 1..Len(arr.v) |-> arr.v[i].v]

\* QueryEngine.validKeys
validKeys == SectionFields \cup RoomFields

\* key.split("_")[1]: undefined when the key has no underscore.
fieldOf(key) == IF Len(split(key, "_")) >= 2 THEN Str(split(key, "_")[2]) ELSE Undefined

\* fields[name] is defined, for the field name a key gives.
isField(name, fields) == name.t = "string" /\ Len(name.v) = 1 /\ name.v[1] \in fields

\* The dataset ids a list of column keys adds to datasetIds.
columnIds(columns) == {split(columns[i], "_")[1] : i \in {j \in 1..Len(columns) : includes(columns[j], "_")}}

\* QueryHelper.extractDatasetIds: the ids it adds, [ok |-> FALSE] when it throws.
RECURSIVE extractDatasetIds(_)
extractDatasetIds(obj) ==
    IF TypeOf(obj) # "object" \/ obj.t = "null" THEN [ok |-> TRUE, ids |-> {}]
    ELSE LET keys == objectKeys(obj)
             sub == [i \in 1..Len(keys) |-> extractDatasetIds(objectValues(obj)[i])]
             under == {i \in 1..Len(keys) : includes(keys[i], "_")}
         IN  [ok |-> /\ \A i \in under : isField(fieldOf(keys[i]), validKeys)
                     /\ \A i \in 1..Len(keys) : sub[i].ok,
              ids |-> {split(keys[i], "_")[1] : i \in under} \cup UNION {sub[i].ids : i \in 1..Len(keys)}]

\* The columns without an underscore: what a list of keys adds to addedColumns.
columnsAdded(columns) == {columns[i] : i \in {j \in 1..Len(columns) : ~includes(columns[j], "_")}}

\* QueryHelper.processOptions: the ids and the added columns it records,
\* [ok |-> FALSE] when it throws.
processOptions(options) ==
    LET COLUMNS == prop(options, <<"COLUMNS">>)
        ORDER == prop(options, <<"ORDER">>)
        keys == IF ORDER.t = "string" THEN <<ORDER.v>> ELSE strings(prop(ORDER, <<"keys">>))
    IN  IF ~ToBoolean(COLUMNS) THEN [ok |-> FALSE, ids |-> {}, added |-> {}]
        ELSE IF ~ToBoolean(ORDER)
        THEN [ok |-> TRUE, ids |-> columnIds(strings(COLUMNS)), added |-> columnsAdded(strings(COLUMNS))]
        ELSE IF ORDER.t = "string" \/ (TypeOf(ORDER) = "object" /\ prop(ORDER, <<"keys">>).t = "array")
        THEN IF ORDER.t # "string" /\ Len(prop(ORDER, <<"keys">>).v) = 0 THEN [ok |-> FALSE, ids |-> {}, added |-> {}]
             ELSE [ok |-> TRUE, ids |-> columnIds(strings(COLUMNS)) \cup columnIds(keys),
                   added |-> columnsAdded(strings(COLUMNS)) \cup columnsAdded(keys)]
        ELSE [ok |-> FALSE, ids |-> {}, added |-> {}]

\* QueryHelper.validateTransformations: "ok", or the error it throws ("Error" is the
\* TypeError of Object.keys of a rule that is null).
RECURSIVE applyKeysInColumns(_, _)
applyKeysInColumns(applyArray, columns) ==
    IF applyArray = <<>> THEN "ok"
    ELSE IF Head(applyArray).t \in {"null", "undefined"} THEN "Error"
    ELSE IF objectKeys(Head(applyArray)) = <<>> \/ Str(objectKeys(Head(applyArray))[1]) \notin Range(columns.v)
    THEN "InsightError"
    ELSE applyKeysInColumns(Tail(applyArray), columns)

validateTransformations(transformations, columns) ==
    LET applyArray == IF prop(transformations, <<"APPLY">>).t \in {"null", "undefined"} THEN Arr(<<>>)
                      ELSE prop(transformations, <<"APPLY">>)
    IN  IF prop(transformations, <<"GROUP">>).t # "array" THEN "InsightError"
        ELSE IF applyArray.t # "array" THEN "InsightError"
        ELSE applyKeysInColumns(applyArray.v, columns)

\* QueryHelper.processApplyRules: the ids of the rules' fields and the rules' keys,
\* [ok |-> FALSE] when a rule has no key or several.
processApplyRules(APPLY) ==
    LET applyKey(i) == objectKeys(APPLY[i])[1]
        applyObj(i) == prop(APPLY[i], applyKey(i))
        field(i) == objectValues(applyObj(i))[1]
        named == {i \in 1..Len(APPLY) : /\ TypeOf(applyObj(i)) = "object" /\ applyObj(i).t # "null"
                                        /\ objectValues(applyObj(i)) # <<>>
                                        /\ field(i).t = "string" /\ includes(field(i).v, "_")}
    IN  IF \E i \in 1..Len(APPLY) : Len(objectKeys(APPLY[i])) # 1 THEN [ok |-> FALSE, ids |-> {}, added |-> {}]
        ELSE [ok |-> TRUE, ids |-> {split(field(i).v, "_")[1] : i \in named},
              added |-> {applyKey(i) : i \in 1..Len(APPLY)}]

\* The end of QueryHelper.extractDatasetIdsFromTransformations, for the strings of
\* GROUP and what processApplyRules recorded.
transformationIds(GROUP, addedColumns, rules) ==
    IF ~rules.ok THEN [status |-> "InsightError", ids |-> {}]
    ELSE IF addedColumns # rules.added THEN [status |-> "InsightError", ids |-> {}]
    ELSE [status |-> "ok", ids |-> columnIds(GROUP) \cup rules.ids]

\* QueryHelper.extractDatasetIdsFromTransformations for the added columns of
\* OPTIONS: the ids it adds, or the error it throws ("Error" is the TypeError of
\* column.includes for a GROUP entry that is no string).
extractDatasetIdsFromTransformations(transformations, addedColumns) ==
    LET GROUP == prop(transformations, <<"GROUP">>)
        APPLY == prop(transformations, <<"APPLY">>)
    IN  IF Range(objectKeys(transformations)) # {<<"GROUP">>, <<"APPLY">>} THEN [status |-> "InsightError", ids |-> {}]
        ELSE IF GROUP.t # "array" \/ Len(GROUP.v) = 0 THEN [status |-> "InsightError", ids |-> {}]
        ELSE IF APPLY.t # "array" THEN [status |-> "InsightError", ids |-> {}]
        ELSE IF \E i \in 1..Len(GROUP.v) : GROUP.v[i].t # "string" THEN [status |-> "Error", ids |-> {}]
        ELSE transformationIds(strings(GROUP), addedColumns, processApplyRules(APPLY.v))

\* The end of QueryHelper.validateQuery: the one id of datasetIds.
oneDatasetId(datasetIds, fromTransformations) ==
    IF fromTransformations.status # "ok" THEN [status |-> fromTransformations.status]
    ELSE IF Cardinality(datasetIds \cup fromTransformations.ids) # 1 THEN [status |-> "InsightError"]
    ELSE [status |-> "ok", id |-> CHOOSE id \in datasetIds \cup fromTransformations.ids : TRUE]

\* QueryHelper.validateQuery after its checks of WHERE, COLUMNS and ORDER, for
\* what extractDatasetIds, processOptions and validateTransformations gave.
validateQueryIds(query, fromWhere, fromOptions, validated) ==
    LET TRANSFORMATIONS == prop(query, <<"TRANSFORMATIONS">>)
        COLUMNS == prop(prop(query, <<"OPTIONS">>), <<"COLUMNS">>)
    IN  IF ~fromWhere.ok \/ ~fromOptions.ok THEN [status |-> "InsightError"]
        ELSE IF ~ToBoolean(TRANSFORMATIONS)
        THEN oneDatasetId(fromWhere.ids \cup columnIds(strings(COLUMNS)) \cup fromOptions.ids,
                          [status |-> "ok", ids |-> {}])
        ELSE IF validated # "ok" THEN [status |-> validated]
        ELSE oneDatasetId(fromWhere.ids \cup columnIds(strings(COLUMNS)) \cup fromOptions.ids,
                          extractDatasetIdsFromTransformations(TRANSFORMATIONS, fromOptions.added))

\* QueryHelper.validateQuery: the dataset id, or the error it throws ("Error" is
\* the TypeError of reading ORDER.keys of null).
validateQuery(query) ==
    LET WHERE == prop(query, <<"WHERE">>)
        OPTIONS == prop(query, <<"OPTIONS">>)
        COLUMNS == prop(OPTIONS, <<"COLUMNS">>)
        ORDER == prop(OPTIONS, <<"ORDER">>)
    IN  IF ~ToBoolean(WHERE) \/ ~ToBoolean(COLUMNS) THEN [status |-> "InsightError"]
        ELSE IF COLUMNS.t # "array" \/ Len(COLUMNS.v) = 0 THEN [status |-> "InsightError"]
        ELSE IF ORDER.t = "null" THEN [status |-> "Error"]
        ELSE IF /\ TypeOf(ORDER) = "object" /\ prop(ORDER, <<"keys">>).t = "array"
                /\ \E i \in 1..Len(prop(ORDER, <<"keys">>).v) : prop(ORDER, <<"keys">>).v[i] \notin Range(COLUMNS.v)
        THEN [status |-> "InsightError"]
        ELSE validateQueryIds(query, extractDatasetIds(WHERE), processOptions(OPTIONS),
                              validateTransformations(prop(query, <<"TRANSFORMATIONS">>), COLUMNS))

\* SectionHelper.getSectionValue and RoomHelper.getRoomValue: the value of the
\* key's field, [ok |-> FALSE] for the InsightError of a key without such a field.
getValue(row, key, fields) ==
    IF isField(fieldOf(key), fields) THEN [ok |-> TRUE, value |-> row[fieldOf(key).v[1]]]
    ELSE [ok |-> FALSE]

getSectionValue(section, key) == getValue(section, key, SectionFields)

getRoomValue(room, key) == getValue(room, key, RoomFields)

\* The pattern of new RegExp("^" + value.replace(/\*/g, ".*") + "$") tested on s,
\* for a value of letters, digits, "." and "*": "*" has become ".*" and "." stands
\* for any one character.
RECURSIVE regExpTest(_, _)
regExpTest(value, s) ==
    IF value = <<>> THEN s = <<>>
    ELSE IF Head(value) = "*" THEN \E k \in 0..Len(s) : regExpTest(Tail(value), SubSeq(s, k + 1, Len(s)))
    ELSE /\ s # <<>>
         /\ Head(value) = "." \/ Head(value) = Head(s)
         /\ regExpTest(Tail(value), Tail(s))

\* value.slice(1, -1)
sliceInner(value) == SubSeq(value, 2, Len(value) - 1)

\* QueryHelper.handleISComparator: "T", "F", "InsightError", or "Error" for the
\* TypeError of slicing a value that is no string.
handleISComparator(contentValue, value) ==
    IF TypeOf(contentValue) # "string" THEN "InsightError"
    ELSE IF value.t # "string" THEN "Error"
    ELSE IF includes(sliceInner(value.v), "*") THEN "InsightError"
    ELSE IF regExpTest(value.v, contentValue.v) THEN "T" ELSE "F"

\* QueryHelper.handleComparator, for a condition that is an object with a member.
handleComparator(operator, condition, content, kind) ==
    LET datasetKey == objectKeys(condition)[1]
        value == prop(condition, datasetKey)
        contentValue == IF kind = "sections" THEN getSectionValue(content, datasetKey)
                        ELSE getRoomValue(content, datasetKey)
    IN  IF ~contentValue.ok THEN "InsightError"
        ELSE IF operator = "IS" THEN handleISComparator(contentValue.value, value)
        ELSE IF TypeOf(contentValue.value) # "number" THEN "InsightError"
        ELSE IF contentValue.value.t = "nan" \/ value.t = "nan" THEN "F"
        ELSE CASE operator = "GT" -> IF contentValue.value.v > value.v THEN "T" ELSE "F"
               [] operator = "LT" -> IF contentValue.value.v < value.v THEN "T" ELSE "F"
               [] OTHER -> IF contentValue.value.v = value.v THEN "T" ELSE "F"

\* QueryHelper.evaluateCondition: "T", "F", or the error it throws ("Error" for the
\* TypeError of a comparison whose value has no keys to read).  every and some stop
\* at the first sub-condition that decides or throws.
RECURSIVE evaluateCondition(_, _, _)
RECURSIVE everyCondition(_, _, _)
RECURSIVE someCondition(_, _, _)
everyCondition(conditions, content, kind) ==
    IF conditions = <<>> THEN "T"
    ELSE LET r == evaluateCondition(Head(conditions), content, kind)
         IN  IF r = "T" THEN everyCondition(Tail(conditions), content, kind) ELSE r

someCondition(conditions, content, kind) ==
    IF conditions = <<>> THEN "F"
    ELSE LET r == evaluateCondition(Head(conditions), content, kind)
         IN  IF r = "F" THEN someCondition(Tail(conditions), content, kind) ELSE r

evaluateCondition(filter, content, kind) ==
    IF ~ToBoolean(filter) \/ TypeOf(filter) # "object" \/ Len(objectKeys(filter)) # 1 THEN "InsightError"
    ELSE LET key == objectKeys(filter)[1]
             value == objectValues(filter)[1]
         IN  CASE key = <<"AND">> ->
                     IF value.t # "array" \/ Len(value.v) = 0 THEN "InsightError"
                     ELSE everyCondition(value.v, content, kind)
               [] key = <<"OR">> ->
                     IF value.t # "array" \/ Len(value.v) = 0 THEN "InsightError"
                     ELSE someCondition(value.v, content, kind)
               [] key = <<"NOT">> ->
                     IF TypeOf(value) # "object" \/ value.t = "null" THEN "InsightError"
                     ELSE LET r == evaluateCondition(value, content, kind)
                          IN  IF r = "T" THEN "F" ELSE IF r = "F" THEN "T" ELSE r
               [] key = <<"IS">> ->
                     IF value.t \in {"null", "undefined"} \/ objectKeys(value) = <<>> THEN "Error"
                     ELSE handleComparator("IS", value, content, kind)
               [] key \in {<<"GT">>, <<"LT">>, <<"EQ">>} ->
                     IF value.t \in {"null", "undefined"} THEN "Error"
                     ELSE IF Len(objectValues(value)) # 1 \/ TypeOf(objectValues(value)[1]) # "number"
                     THEN "InsightError"
                     ELSE handleComparator(key[1], value, content, kind)
               [] OTHER -> "InsightError"

\* The outcomes of a filter over the rows, in row order.
conditions(where, content, kind) == [i \in 1..Len(content) |-> evaluateCondition(where, content[i], kind)]

\* QueryEngine.handleWhere: the rows kept, or the error of the first row whose
\* evaluation throws.
handleWhere(where, dataset) ==
    LET datasetContent == getContent(dataset)
        outcome == conditions(where, datasetContent, dataset.kind)
        thrown == {i \in 1..Len(datasetContent) : outcome[i] \notin {"T", "F"}}
    IN  IF Len(objectKeys(where)) = 0 THEN [status |-> "ok", rows |-> datasetContent]
        ELSE IF thrown # {}
        THEN [status |-> outcome[CHOOSE i \in thrown : \A j \in thrown : i <= j], rows |-> <<>>]
        ELSE [status |-> "ok",
              rows |-> SelectSeq(datasetContent, LAMBDA c : evaluateCondition(where, c, dataset.kind) = "T")]

\* QueryEngine.limit
limit == 5000

\* The order String.prototype.localeCompare gives the characters of the rows'
\* strings: digits before letters, letters in alphabetical order.
Collation == <<"0", "1", "2", "3", "4", "5", "6", "7", "8", "9", "c", "m", "p", "t">>

rank(c) == CHOOSE i \in 1..Len(Collation) : Collation[i] = c

\* a.localeCompare(b) of strings over these characters: negative, 0 or positive.
RECURSIVE localeCompare(_, _)
localeCompare(a, b) ==
    IF a = <<>> /\ b = <<>> THEN 0
    ELSE IF a = <<>> THEN -1
    ELSE IF b = <<>> THEN 1
    ELSE IF Head(a) # Head(b) THEN rank(Head(a)) - rank(Head(b))
    ELSE localeCompare(Tail(a), Tail(b))

\* QueryEngine.validateOrder: the keys and the direction, [ok |-> FALSE] when it throws.
validateOrder(order, columns) ==
    LET keys == IF order.t = "string" THEN <<order>> ELSE prop(order, <<"keys">>).v
    IN  IF order.t = "string" \/ (order.t = "object" /\ hasProp(order, <<"dir">>) /\ hasProp(order, <<"keys">>))
        THEN IF order.t = "object" /\ (prop(order, <<"keys">>).t # "array"
                                        \/ prop(order, <<"dir">>) \notin {Str(<<"UP">>), Str(<<"DOWN">>)})
             THEN [ok |-> FALSE]
             ELSE IF \E i \in 1..Len(keys) : keys[i] \notin Range(columns.v) THEN [ok |-> FALSE]
             ELSE [ok |-> TRUE, keys |-> strings(Arr(keys)),
                   ascending |-> order.t = "string" \/ prop(order, <<"dir">>) = Str(<<"UP">>)]
        ELSE [ok |-> FALSE]

\* x instanceof Section, x instanceof Room: a transformed item is a plain object.
isSection(x) == "uuid" \in DOMAIN x

isRoom(x) == "fullname" \in DOMAIN x

\* QueryEngine.getValueFromObject: obj[key].
getValueFromObject(obj, keyName) ==
    IF isSection(obj) \/ isRoom(obj)
    THEN IF keyName.t = "string" /\ Len(keyName.v) = 1 /\ keyName.v[1] \in DOMAIN obj THEN obj[keyName.v[1]]
         ELSE Undefined
    ELSE prop(obj, keyName.v)

\* A number in hundredths: AVG gives numbers of two decimals, [v |-> the whole
\* part, c |-> the hundredths]; every other number is whole.
hundredths(x) == 100 * x.v + (IF "c" \in DOMAIN x THEN x.c ELSE 0)

\* The number of h hundredths.
Dec(h) == IF h % 100 = 0 THEN Num(h \div 100) ELSE [t |-> "number", v |-> h \div 100, c |-> h % 100]

\* QueryEngine.compareSectionsOrRooms (the difference of two numbers is taken in
\* hundredths: only its sign is used).
RECURSIVE compareSectionsOrRooms(_, _, _, _)
compareSectionsOrRooms(a, b, keys, ascending) ==
    IF keys = <<>> THEN 0
    ELSE LET keyName == IF isSection(a) \/ isRoom(b) THEN fieldOf(Head(keys)) ELSE Str(Head(keys))
             valA == getValueFromObject(a, keyName)
             valB == getValueFromObject(b, keyName)
             comparison == IF valA.t = "number" /\ valB.t = "number" THEN hundredths(valA) - hundredths(valB)
                           ELSE IF valA.t = "string" /\ valB.t = "string" THEN localeCompare(valA.v, valB.v)
                           ELSE 0
         IN  IF comparison # 0 THEN (IF ascending THEN comparison ELSE 0 - comparison)
             ELSE compareSectionsOrRooms(a, b, Tail(keys), ascending)

\* Array.prototype.sort with the comparator: a stable sort.
RECURSIVE sortRows(_, _, _)
sortRows(content, keys, ascending) ==
    IF content = <<>> THEN <<>>
    ELSE LET sorted == sortRows(SubSeq(content, 1, Len(content) - 1), keys, ascending)
             last == content[Len(content)]
             before == {i \in 1..Len(sorted) : compareSectionsOrRooms(sorted[i], last, keys, ascending) <= 0}
             at == IF before = {} THEN 0 ELSE CHOOSE i \in before : \A j \in before : j <= i
         IN  SubSeq(sorted, 1, at) \o <<last>> \o SubSeq(sorted, at + 1, Len(sorted))

\* ss.join(sep)
RECURSIVE join(_, _)
join(ss, sep) ==
    IF ss = <<>> THEN <<>>
    ELSE IF Len(ss) = 1 THEN ss[1]
    ELSE ss[1] \o <<sep>> \o join(Tail(ss), sep)

\* parseFloat(s): the number of the leading digits of s, NaN when there are none.
parseFloat(s) ==
    LET t == trimStart(s)
        n == CHOOSE k \in 0..Len(t) : (\A i \in 1..k : isDigit(t[i])) /\ (k = Len(t) \/ ~isDigit(t[k + 1]))
    IN  IF n = 0 THEN NaN ELSE Num(digitsToNumber(SubSeq(t, 1, n), 0))

\* obj[key] = val on an object: Object.keys keeps the order of first assignment.
setProp(obj, key, val) ==
    IF hasProp(obj, key)
    THEN Obj([i \in 1..Len(obj.v) |-> IF obj.v[i].k = key THEN [k |-> key, val |-> val] ELSE obj.v[i]])
    ELSE Obj(Append(obj.v, [k |-> key, val |-> val]))

\* QueryEngine.shouldBeNumber
shouldBeNumber(key) ==
    endsWith(key, <<"_", "lat">>) \/ endsWith(key, <<"_", "lon">>) \/ endsWith(key, <<"_", "seats">>)

\* The string a value has inside Array.prototype.join: null and undefined are empty.
joined(x) == IF x.t \in {"null", "undefined"} THEN <<>> ELSE IF x.t = "nan" THEN <<"NaN">> ELSE toString(x).v

\* The group key of an item in QueryEngine.groupByKeys: the values of the GROUP keys
\* joined with "|", [ok |-> FALSE] when a key has no field.
groupKeyOf(item, GROUP) ==
    LET value(i) == IF isSection(item) THEN getSectionValue(item, GROUP[i]) ELSE getRoomValue(item, GROUP[i])
    IN  IF \E i \in 1..Len(GROUP) : ~value(i).ok THEN [ok |-> FALSE]
        ELSE [ok |-> TRUE, key |-> join([i \in 1..Len(GROUP) |-> joined(value(i).value)], "|")]

\* QueryEngine.groupByKeys: the groups in the order of their first item, each with
\* its key and its items in dataset order.  (A dataset holds rows of one class, so
\* one of the two maps stays empty.)
groupByKeys(dataset, GROUP) ==
    LET n == Len(dataset)
        keys == [i \in 1..n |-> groupKeyOf(dataset[i], GROUP)]
        firsts == SelectSeq([i \in 1..n |-> i], LAMBDA i : \A j \in 1..(i - 1) : keys[j] # keys[i])
    IN  IF \E i \in 1..n : ~keys[i].ok THEN [ok |-> FALSE]
        ELSE [ok |-> TRUE,
              groups |-> [g \in 1..Len(firsts) |->
                             [groupKey |-> keys[firsts[g]].key,
                              groupItems |-> SelectSeq(dataset, LAMBDA x : groupKeyOf(x, GROUP) = keys[firsts[g]])]]]

\* QueryEngine.processGroupKeys
RECURSIVE processGroupKeys(_, _, _)
processGroupKeys(groupKey, GROUP, index) ==
    IF index = 0 THEN Obj(<<>>)
    ELSE LET parts == split(groupKey, "|")
             value == IF index <= Len(parts) THEN Str(parts[index]) ELSE Undefined
             parsedValue == parseFloat(value.v)
             key == GROUP[index]
         IN  setProp(processGroupKeys(groupKey, GROUP, index - 1), key,
                     IF shouldBeNumber(key) /\ value.t = "string" /\ parsedValue.t # "nan" THEN parsedValue ELSE value)

\* The aggregation operators QueryEngine.validateNumericValues asks numbers for.
NumericOperators == {<<"AVG">>, <<"SUM">>, <<"MAX">>, <<"MIN">>}

RECURSIVE sumOf(_)
sumOf(values) == IF values = <<>> THEN 0 ELSE hundredths(Head(values)) + sumOf(Tail(values))

\* QueryEngine.computeApplyOperation: its number, or the error it throws ("Error" is
\* the TypeError of field.split for a field that is no string).  AVG is the exact
\* sum divided by the count, rounded to two decimals.
computeApplyOperation(operator, field, groupItems) ==
    LET value(i) == IF isSection(groupItems[i]) THEN getSectionValue(groupItems[i], field.v)
                    ELSE getRoomValue(groupItems[i], field.v)
        values == [i \in 1..Len(groupItems) |-> value(i).value]
        n == Len(groupItems)
        numbers == {hundredths(values[i]) : i \in 1..n}
    IN  IF field.t # "string" THEN [status |-> "Error"]
        ELSE IF \E i \in 1..n : ~value(i).ok THEN [status |-> "InsightError"]
        ELSE IF operator \in NumericOperators /\ \E i \in 1..n : values[i].t # "number"
        THEN [status |-> "InsightError"]
        ELSE CASE operator = <<"AVG">> -> [status |-> "ok", value |-> Dec((2 * sumOf(values) + n) \div (2 * n))]
               [] operator = <<"SUM">> -> [status |-> "ok", value |-> Dec(sumOf(values))]
               [] operator = <<"COUNT">> -> [status |-> "ok", value |-> Num(Cardinality(Range(values)))]
               [] operator = <<"MAX">> ->
                     [status |-> "ok", value |-> Dec(CHOOSE m \in numbers : \A k \in numbers : k <= m)]
               [] operator = <<"MIN">> ->
                     [status |-> "ok", value |-> Dec(CHOOSE m \in numbers : \A k \in numbers : m <= k)]
               [] OTHER -> [status |-> "InsightError"]

\* QueryEngine.processApplyRules: the item with the rules' columns set, or the
\* error of the first rule that throws ("Error" is the TypeError of Object.keys of an
\* aggregation that is null or undefined).
RECURSIVE applyRules(_, _, _)
applyRules(transformedItem, APPLY, groupItems) ==
    IF APPLY = <<>> THEN [status |-> "ok", item |-> transformedItem]
    ELSE LET applyRule == Head(APPLY)
             applyKey == objectKeys(applyRule)[1]
             applyObj == prop(applyRule, applyKey)
             applyOperator == objectKeys(applyObj)[1]
             field == prop(applyObj, applyOperator)
             computed == computeApplyOperation(applyOperator, field, groupItems)
         IN  IF applyObj.t \in {"null", "undefined"} THEN [status |-> "Error"]
             ELSE IF objectKeys(applyObj) = <<>> THEN [status |-> "Error"]
             ELSE IF computed.status # "ok" THEN [status |-> computed.status]
             ELSE applyRules(setProp(transformedItem, applyKey, computed.value), Tail(APPLY), groupItems)

\* The keys QueryEngine.ensureNumericConsistency parses the strings of.
validNumericKey ==
    {<<"year">>, <<"avg">>, <<"pass">>, <<"fail">>, <<"audit">>, <<"lat">>, <<"lon">>, <<"seats">>,
     <<"sections", "_", "avg">>}

\* QueryEngine.ensureNumericConsistency
ensureNumericConsistency(transformedItem) ==
    Obj([i \in 1..Len(transformedItem.v) |->
            LET m == transformedItem.v[i]
            IN  IF m.k \in validNumericKey /\ m.val.t = "string" THEN [k |-> m.k, val |-> parseFloat(m.val.v)]
                ELSE m])

\* QueryEngine.processGroup
processGroup(groupKey, groupItems, GROUP, APPLY) ==
    LET applied == applyRules(processGroupKeys(groupKey, GROUP, Len(GROUP)), APPLY, groupItems)
    IN  IF applied.status # "ok" THEN applied
        ELSE [status |-> "ok", item |-> ensureNumericConsistency(applied.item)]

\* The transformed items of the groups, or the error of the first group whose
\* processGroup throws.
transformedData(processed) ==
    LET thrown == {g \in 1..Len(processed) : processed[g].status # "ok"}
    IN  IF thrown # {}
        THEN [status |-> processed[CHOOSE g \in thrown : \A h \in thrown : g <= h].status, rows |-> <<>>]
        ELSE [status |-> "ok", rows |-> [g \in 1..Len(processed) |-> processed[g].item]]

\* The two steps of QueryEngine.handleTransformations over what groupByKeys gave.
processGroups(GROUP, APPLY, grouped) ==
    IF ~grouped.ok THEN [status |-> "InsightError", rows |-> <<>>]
    ELSE transformedData([g \in 1..Len(grouped.groups) |->
                             processGroup(grouped.groups[g].groupKey, grouped.groups[g].groupItems, GROUP, APPLY)])

\* QueryEngine.handleTransformations: the dataset as it is without
\* TRANSFORMATIONS, else the transformed items or the error it throws.
handleTransformations(query, dataset) ==
    LET GROUP == prop(prop(query, <<"TRANSFORMATIONS">>), <<"GROUP">>)
        APPLY == prop(prop(query, <<"TRANSFORMATIONS">>), <<"APPLY">>)
    IN  IF ~ToBoolean(prop(query, <<"TRANSFORMATIONS">>)) THEN [status |-> "ok", rows |-> dataset]
        ELSE IF GROUP.t # "array" \/ APPLY.t # "array" THEN [status |-> "InsightError", rows |-> <<>>]
        ELSE processGroups(strings(GROUP), APPLY.v, groupByKeys(dataset, strings(GROUP)))

\* QueryEngine.handleOptions: the result records (a record maps each column to the
\* row's value), or the error it throws.
handleOptions(options, content) ==
    LET columns == IF prop(options, <<"COLUMNS">>).t \in {"null", "undefined"} THEN Arr(<<>>)
                   ELSE prop(options, <<"COLUMNS">>)
        order == validateOrder(prop(options, <<"ORDER">>), columns)
        sorted == IF hasProp(options, <<"ORDER">>) THEN sortRows(content, order.keys, order.ascending)
                  ELSE content
        cell(row, column) == IF isSection(row) THEN getSectionValue(row, column)
                             ELSE IF isRoom(row) THEN getRoomValue(row, column)
                             ELSE [ok |-> TRUE, value |-> prop(row, column)]
    IN  IF Len(content) > limit THEN [status |-> "ResultTooLargeError", value |-> <<>>]
        ELSE IF \E i \in 1..Len(objectKeys(options)) : objectKeys(options)[i] \notin {<<"COLUMNS">>, <<"ORDER">>}
        THEN [status |-> "InsightError", value |-> <<>>]
        ELSE IF hasProp(options, <<"ORDER">>) /\ ~order.ok THEN [status |-> "InsightError", value |-> <<>>]
        ELSE IF \E i \in 1..Len(sorted), j \in 1..Len(columns.v) : ~cell(sorted[i], columns.v[j].v).ok
        THEN [status |-> "InsightError", value |-> <<>>]
        ELSE [status |-> "ok",
              value |-> [i \in 1..Len(sorted) |->
                            [column \in Range(strings(columns)) |-> cell(sorted[i], column).value]]]

\* QueryEngine.handleQuery from handleOptions on, for the transformed content.
handleQueryOptions(rawQuery, queriedContent) ==
    IF queriedContent.status # "ok" THEN [status |-> queriedContent.status, value |-> <<>>]
    ELSE handleOptions(IF prop(rawQuery, <<"OPTIONS">>).t \in {"null", "undefined"} THEN Obj(<<>>)
                       ELSE prop(rawQuery, <<"OPTIONS">>),
                       queriedContent.rows)

\* QueryEngine.handleQuery from handleTransformations on, for the filtered content.
handleQueryTransformations(rawQuery, filtered) ==
    IF filtered.status # "ok" THEN [status |-> filtered.status, value |-> <<>>]
    ELSE handleQueryOptions(rawQuery, handleTransformations(rawQuery, filtered.rows))

\* QueryEngine.handleQuery from handleWhere on, for the loaded dataset.
handleQueryWhere(rawQuery, loaded) ==
    IF ~loaded.ok THEN [status |-> "InsightError", value |-> <<>>]
    ELSE handleQueryTransformations(
             rawQuery,
             handleWhere(IF prop(rawQuery, <<"WHERE">>).t \in {"null", "undefined"} THEN Obj(<<>>)
                         ELSE prop(rawQuery, <<"WHERE">>),
                         loaded.dataset))

\* QueryEngine.handleQuery from loadFromDisk on, for the validated id.
handleQueryDataset(rawQuery, d, valid) ==
    IF valid.status # "ok" THEN [status |-> valid.status, value |-> <<>>]
    ELSE handleQueryWhere(rawQuery, loadFromDisk(d, valid.id))

\* QueryEngine.handleQuery over the data directory d.
handleQuery(rawQuery, d) == handleQueryDataset(rawQuery, d, validateQuery(rawQuery))

\* InsightFacade.performQuery over the data directory d.
performQuery(query, d) ==
    IF TypeOf(query) # "object" \/ query.t = "null" THEN [status |-> "InsightError", value |-> <<>>]
    ELSE handleQuery(query, d)

----------------------------------------------------------------------------
(* InsightFacade *)

\* An id check without the white-space test.
validDatasetIDNoTrim(id) == ~(id = <<>> \/ includes(id, "_"))

\* InsightFacade.validDatasetID: TRUE when it does not throw.
validDatasetID(id) == ~(id = <<>> \/ includes(id, "_") \/ Len(trim(id)) = 0)

\* The rows an add of `content` parses, or its rejection: the dispatch of addDataset.
ingest(content, kind, order) ==
    IF kind = "rooms" THEN processRoomRows(content, order) ELSE processSectionRows(content, order)

\* arr.indexOf(x), 0-based, -1 when absent.
indexOf(arr, x) ==
    IF \E i \in 1..Len(arr) : arr[i] = x
    THEN (CHOOSE i \in 1..Len(arr) : arr[i] = x /\ \A j \in 1..(i - 1) : arr[j] # x) - 1
    ELSE -1

\* arr.splice(index, 1): a negative index counts from the end.
splice1(arr, index) ==
    LET at == IF index < 0 THEN Len(arr) + index + 1 ELSE index + 1
    IN  IF at < 1 \/ at > Len(arr) THEN arr
        ELSE SubSeq(arr, 1, at - 1) \o SubSeq(arr, at + 1, Len(arr))

\* InsightFacade.listDatasets: what it resolves to over the directory d.
listDatasets(d) ==
    IF Len(getAllDatasetIds(d)) < 1 THEN <<>>
    ELSE LET allData == getAllDatasets(d)
         IN  [i \in 1..Len(allData) |->
                 [id |-> allData[i].id, kind |-> allData[i].kind, numRows |-> Len(getContent(allData[i]))]]

NoContent == [zip |-> FALSE, entries |-> <<>>]

\* The outcome recorded for an operation.
Outcome(op, id, kind, content, status, value) ==
    [op |-> op, id |-> id, kind |-> kind, content |-> content, status |-> status, value |-> value]

\* The number of rows the archive holds for the kind: the elements of the result
\* arrays of its course files, or the rows of the room tables of its buildings.
archiveRowCount(content, kind) ==
    IF kind = "sections"
    THEN LET files == courseFiles(content)
         IN  Len(concatAll([i \in 1..Len(files) |-> files[i].data.result]))
    ELSE LET rows == zipFile(content, IndexName).data.tables[firstValidTable(zipFile(content, IndexName).data)].rows
             page(i) == zipFile(content, rows[i].href).data
             counted(i) == /\ rows[i].titleCell /\ rows[i].addressCell /\ rows[i].geo = "ok"
                           /\ zipHasFile(content, rows[i].href) /\ page(i).roomTable
         IN  Len(concatAll([i \in 1..Len(rows) |-> IF counted(i) THEN page(i).rows ELSE <<>>]))

\* How InsightFacade.addDataset(id, content, kind) settles over the directory d:
\* "ok", or the class of the error it rejects with.
addStatus(d, id, content, kind, order) ==
    IF ~validDatasetID(id) THEN "InsightError"
    ELSE IF doesDatasetExist(d, id) THEN "InsightError"
    ELSE ingest(content, kind, order).status

\* this.sectionDatasetArray once addDataset(id, content, kind) has settled and its
\* file tasks are over: as it was when the call does not reach processSectionKind,
\* else emptied and, for a valid zip, filled with what each file task pushed (a
\* task pushes the elements before the first one processSection refuses).
sectionDatasetArrayAfter(before, d, id, content, kind, order) ==
    IF ~validDatasetID(id) \/ doesDatasetExist(d, id) \/ kind # "sections" \/ ~isBase64(content) THEN before
    ELSE IF ~content.zip \/ ~validZip(content) THEN <<>>
    ELSE concatAll([i \in 1..Len(courseFiles(content)) |-> processJsonData(courseFiles(content)[order[i]].data).pushed])

\* InsightFacade.addDataset(id, content, kind) on facade f, with its parallel tasks
\* completing in the order `order`.
AddDataset(f, id, content, kind, order) ==
    LET status == addStatus(disk, id, content, kind, order)
        saved == saveToDisk(disk, Dataset(id, ingest(content, kind, order).rows, kind))
    IN  /\ datasets' = datasets
        /\ calls' = calls
        /\ sectionDatasetArray' =
               [sectionDatasetArray EXCEPT ![f] = sectionDatasetArrayAfter(@, disk, id, content, kind, order)]
        /\ IF status # "ok"
           THEN /\ result' = Outcome("add", id, kind, content, status, <<>>)
                /\ UNCHANGED <<disk, live>>
           ELSE /\ disk' = saved
                /\ result' = Outcome("add", id, kind, content, "ok", getAllDatasetIds(saved))
                /\ live' = [i \in DOMAIN live \cup {id} |->
                               IF i = id THEN [kind |-> kind, numRows |-> archiveRowCount(content, kind)]
                               ELSE live[i]]

\* A removal that does not look for the dataset first.
removeStatusNoLookup(d, id) == IF ~validDatasetID(id) THEN "InsightError" ELSE "ok"

\* How InsightFacade.removeDataset(id) settles over the directory d.
removeStatus(d, id) ==
    IF ~validDatasetID(id) THEN "InsightError"
    ELSE IF ~doesDatasetExist(d, id) THEN "NotFoundError"
    ELSE "ok"

\* The file removeDataset deletes: path.join(<data directory>, `${id}.json`).
removePath(id) == joinDataDir(id \o JsonExt)

\* InsightFacade.removeDataset(id) on facade f.
RemoveDataset(f, id) ==
    LET status == removeStatus(disk, id)
    IN  IF status # "ok"
        THEN /\ result' = Outcome("remove", id, "-", NoContent, status, <<>>)
             /\ UNCHANGED <<disk, datasets, live, sectionDatasetArray, calls>>
        ELSE /\ disk' = fsRemove(disk, removePath(id))
             /\ datasets' = [datasets EXCEPT ![f] = splice1(datasets[f], indexOf(datasets[f], id))]
             /\ result' = Outcome("remove", id, "-", NoContent, "ok", id)
             /\ live' = [i \in DOMAIN live \ {id} |-> live[i]]
             /\ UNCHANGED <<sectionDatasetArray, calls>>

\* InsightFacade.listDatasets() on facade f.
ListDatasets(f) ==
    /\ result' = Outcome("list", <<>>, "-", NoContent, "ok", listDatasets(disk))
    /\ disk' = fsEnsureDir(disk)
    /\ UNCHANGED <<datasets, live, sectionDatasetArray, calls>>

\* The outcome of performQuery(query) once its promise has settled.
QueryOutcome(query, settled) ==
    [op |-> "query", id |-> <<>>, kind |-> "-", content |-> NoContent,
     status |-> settled.status, value |-> settled.value, query |-> query]

\* InsightFacade.performQuery(query) on facade f.
PerformQuery(f, query) ==
    /\ result' = QueryOutcome(query, performQuery(query, disk))
    /\ UNCHANGED <<disk, datasets, live, sectionDatasetArray, calls>>

----------------------------------------------------------------------------
(* Server: the handler of DELETE /dataset/:id. *)

\* The test Server.removeDataset makes of req.params.id before it calls the facade.
invalidParam(id) == id = <<>> \/ Len(trim(id)) = 0 \/ includes(id, "_") \/ (\A i \in 1..Len(id) : id[i] \in WhiteSpace)

\* The status code Server.removeDataset answers the facade's outcome with.
removeStatusCode(status) ==
    CASE status = "ok" -> 200
      [] status = "InsightError" -> 400
      [] status = "NotFoundError" -> 404
      [] OTHER -> 500

\* Server.removeDataset(req, res) for req.params.id = id: the facade's removal
\* and the responses res.status(code).json(body) is called with, in order (a second
\* call on a response already sent throws).
ServerRemoveDataset(id) ==
    LET status == removeStatus(disk, id)
        responses == (IF invalidParam(id) THEN <<400>> ELSE <<>>) \o <<removeStatusCode(status)>>
    IN  /\ result' = [op |-> "DELETE", id |-> id, kind |-> "-", content |-> NoContent, status |-> status,
                      value |-> IF status = "ok" THEN id ELSE <<>>, responses |-> responses, facadeCalled |-> TRUE]
        /\ IF status # "ok"
           THEN UNCHANGED <<disk, datasets, live>>
           ELSE /\ disk' = fsRemove(disk, removePath(id))
                /\ datasets' = [datasets EXCEPT ![1] = splice1(datasets[1], indexOf(datasets[1], id))]
                /\ live' = [i \in DOMAIN live \ {id} |-> live[i]]
        /\ UNCHANGED <<sectionDatasetArray, calls>>

----------------------------------------------------------------------------
(* The archives the operations are given. *)

\* One element of a course file's result array, as the UBC archives hold them
\* (id a number, Year a string of digits).
Element(section, id, subject, avg) ==
    [Section |-> Str(section), id |-> Num(id), Course |-> Str(<<"3", "1", "0">>), Title |-> Str(<<"t">>),
     Professor |-> Str(<<"p">>), Subject |-> Str(subject), Year |-> Str(<<"2", "0", "1", "5">>),
     Avg |-> Num(avg), Pass |-> Num(10), Fail |-> Num(1), Audit |-> Num(0)]

\* The element without one of its keys, and with null for it.
Without(e, key) == [k \in DOMAIN e \ {key} |-> e[k]]

WithNull(e, key) == [k \in DOMAIN e |-> IF k = key THEN Null ELSE e[k]]

DirEntry(name) == [name |-> name, dir |-> TRUE, data |-> [json |-> FALSE]]

FileEntry(name, data) == [name |-> name, dir |-> FALSE, data |-> data]

\* A course file whose text is JSON with a result array.
CourseJson(elems) == [json |-> TRUE, hasResult |-> TRUE, isArray |-> TRUE, result |-> elems]

CourseName(i) == CoursesDir \o <<"f", Digits[i + 1]>>

\* A sections archive: the courses/ directory and one file per given file content.
SectionsArchive(datas) ==
    [zip |-> TRUE,
     entries |-> <<DirEntry(CoursesDir)>> \o [i \in 1..Len(datas) |-> FileEntry(CourseName(i), datas[i])]]

NotZip == [zip |-> FALSE, entries |-> <<>>]

\* A row of the building table of index.htm, and its building page.
BuildingRow(short, geo) ==
    [titleCell |-> TRUE, addressCell |-> TRUE, fullname |-> Str(<<"Hall ", short>>), shortname |-> Str(<<short>>),
     href |-> <<"buildings", "/", short, ".htm">>, address |-> Str(<<"1 Main Mall">>), geo |-> geo]

RoomRow(number) ==
    [number |-> Str(<<" ", number, " ">>), seats |-> Str(<<" ", "4", "0", " ">>),
     furniture |-> Str(<<"Tables ", "&amp;", " Chairs">>), type |-> Str(<<"Small Group">>),
     href |-> Str(<<"http://rooms/", number>>)]

BuildingPage(roomTable, rows) == [roomTable |-> roomTable, rows |-> rows]

\* A rooms archive: index.htm with the given tables, and the given building pages.
RoomsArchive(tables, pages) ==
    [zip |-> TRUE,
     entries |-> <<FileEntry(IndexName, [tables |-> tables])>>
                 \o [i \in 1..Len(pages) |-> FileEntry(pages[i].name, pages[i].data)]]

\* The archives of the store's life cycle: a two-row sections archive, a one-room
\* rooms archive, and content that is no zip.
ArchiveS2 == SectionsArchive(<<CourseJson(<<Element(<<"1">>, 1, <<"c">>, 90), Element(<<"overall">>, 2, <<"m">>, 70)>>)>>)

ArchiveR1 ==
    RoomsArchive(<<[rows |-> <<BuildingRow("ACU", "ok")>>]>>,
                 <<[name |-> BuildingRow("ACU", "ok").href, data |-> BuildingPage(TRUE, <<RoomRow("1")>>)]>>)

LifeArchives == {ArchiveS2, ArchiveR1, NotZip}

Kinds == {"sections", "rooms"}

----------------------------------------------------------------------------
(* The queries the operations are given. *)

\* The key <id>_<field>.
Key(id, field) == id \o <<"_", field>>

Member(k, val) == [k |-> <<k>>, val |-> val]

\* The filter {op: {key: val}}.
Comparison(op, key, val) == Obj(<<Member(op, Obj(<<[k |-> key, val |-> val]>>))>>)

\* The member COLUMNS: cs.
Columns(cs) == Member("COLUMNS", Arr([i \in 1..Len(cs) |-> Str(cs[i])]))

----------------------------------------------------------------------------
(* The store's life cycle: adds, removes, listings and queries through any    *)
(* facade.                                                                    *)

Init ==
    /\ disk = <<>>
    /\ datasets = [f \in Facades |-> <<>>]
    /\ sectionDatasetArray = [f \in Facades |-> <<>>]
    /\ calls = <<>>
    /\ result = Outcome("none", <<>>, "-", NoContent, "ok", <<>>)
    /\ live = <<>>

Add ==
    \E f \in Facades, id \in Ids, content \in LifeArchives, kind \in Kinds :
        \E order \in Orders(parallelTasks(content, kind)) :
            /\ AddDataset(f, id, content, kind, order)
            /\ Cardinality(DOMAIN disk') <= MaxStored

Remove == \E f \in Facades, id \in Ids : RemoveDataset(f, id)

List == \E f \in Facades : ListDatasets(f)

\* The queries of the life cycle: every section of the dataset id, or the ones
\* above an average.
LifeQueries ==
    {Obj(<<Member("WHERE", w), Member("OPTIONS", Obj(<<Columns(<<Key(id, "avg")>>)>>))>>) :
        id \in {<<"a">>, <<"/">>, <<"a", " ">>},
        w \in {Obj(<<>>)}}
    \cup {Obj(<<Member("WHERE", Comparison("GT", Key(<<"a">>, "avg"), Num(80))),
                Member("OPTIONS", Obj(<<Columns(<<Key(<<"a">>, "avg")>>)>>))>>)}

Ask == \E f \in Facades, query \in LifeQueries : PerformQuery(f, query)

Next == Add \/ Remove \/ List \/ Ask

Spec == Init /\ [][Next]_vars

----------------------------------------------------------------------------
(* One add of an archive out of a wide universe, over an empty store or a     *)
(* store that holds a dataset, and the listing after it.                      *)

\* The longest result array or room table, and the most course files or buildings.
MaxRows == 2

MaxFiles == 2

\* The sequences of length n that are `plain` everywhere, or `odd` at one place.
OneOdd(n, plain, odd) ==
    {[i \in 1..n |-> plain]} \cup UNION {{[i \in 1..n |-> IF i = k THEN o ELSE plain] : o \in odd} : k \in 1..n}

\* The sequences of length n over `plain` with at most one place taken from `odd`.
OneOddOver(n, plain, odd) ==
    [1..n -> plain] \cup
    UNION {{[i \in 1..n |-> IF i = k THEN o ELSE p[i]] : o \in odd, p \in [1..n -> plain]} : k \in 1..n}

ElementKeys == {"id", "Course", "Title", "Professor", "Subject", "Avg", "Pass", "Fail", "Audit", "Year"}

GoodElement == Element(<<"1">>, 1, <<"c">>, 90)

OverallElement == Element(<<"overall">>, 1, <<"c">>, 90)

\* Elements that lack a key, or hold null for it.
DefectiveElements ==
    UNION {{Without(e, k), WithNull(e, k)} : e \in {GoodElement, OverallElement}, k \in ElementKeys}

ResultArrays == UNION {OneOdd(n, GoodElement, DefectiveElements \cup {OverallElement}) : n \in 0..MaxRows}

Unparsable == [json |-> FALSE]

NoResult == [json |-> TRUE, hasResult |-> FALSE]

ResultNotArray == [json |-> TRUE, hasResult |-> TRUE, isArray |-> FALSE]

CourseDatas == {CourseJson(a) : a \in ResultArrays} \cup {Unparsable, NoResult, ResultNotArray}

PlainCourseDatas == {CourseJson(<<GoodElement>>), CourseJson(<<>>)}

OtherDir == <<"other", "/">>

\* Archives whose layout is not one courses/ directory with files in it.
MisplacedArchives ==
    {[zip |-> TRUE, entries |-> es] : es \in
        {<<FileEntry(CourseName(1), CourseJson(<<GoodElement>>))>>,
         <<DirEntry(CoursesDir), DirEntry(OtherDir), FileEntry(CourseName(1), CourseJson(<<GoodElement>>))>>,
         <<DirEntry(OtherDir), FileEntry(OtherDir \o <<"f", "1">>, CourseJson(<<GoodElement>>))>>,
         <<DirEntry(CoursesDir), FileEntry(<<"f", "1">>, CourseJson(<<GoodElement>>))>>}}

SectionsArchives ==
    UNION {{SectionsArchive(d) : d \in OneOddOver(n, PlainCourseDatas, CourseDatas)} : n \in 0..MaxFiles}
    \cup MisplacedArchives

RoomRowKeys == {"number", "seats", "furniture", "type", "href"}

\* Room rows with a cell that is missing or empty.
DefectiveRoomRows == {[RoomRow("1") EXCEPT ![k] = v] : k \in RoomRowKeys, v \in {Null, Str(<<>>)}}

RoomTables == UNION {OneOdd(n, RoomRow("1"), DefectiveRoomRows) : n \in 0..MaxRows}

ShortNames == <<"A", "B", "C", "D">>

NoPage == [present |-> FALSE]

Page(data) == [present |-> TRUE, data |-> data]

\* The buildings of short name s: a row of the building table and its page.
Buildings(s) ==
    {[row |-> [BuildingRow(s, geo) EXCEPT !.addressCell = cell], page |-> page] :
        geo \in {"ok", "error", "fail"}, cell \in BOOLEAN,
        page \in {NoPage, Page(BuildingPage(FALSE, <<>>))} \cup {Page(BuildingPage(TRUE, t)) : t \in RoomTables}}

PlainBuildings(s) ==
    {[row |-> BuildingRow(s, "ok"), page |-> Page(BuildingPage(TRUE, <<RoomRow("1")>>))],
     [row |-> BuildingRow(s, "error"), page |-> NoPage]}

\* The building lists of length n: building i has the i-th short name.
BuildingLists(n) ==
    {bs \in OneOddOver(n, UNION {PlainBuildings(ShortNames[i]) : i \in 1..n},
                          UNION {Buildings(ShortNames[i]) : i \in 1..n}) :
        \A i \in 1..n : bs[i].row.shortname = Str(<<ShortNames[i]>>)}

\* The archive of a building list, its table after `before` in index.htm.
BuildingsArchive(before, bs) ==
    LET paged == SelectSeq(bs, LAMBDA b : b.page.present)
    IN  RoomsArchive(before \o <<[rows |-> [i \in 1..Len(bs) |-> bs[i].row]]>>,
                     [i \in 1..Len(paged) |-> [name |-> paged[i].row.href, data |-> paged[i].page.data]])

\* A table of index.htm without building cells.
OtherTable == [rows |-> <<[BuildingRow("A", "ok") EXCEPT !.titleCell = FALSE, !.addressCell = FALSE]>>]

RoomsArchives ==
    UNION {{BuildingsArchive(<<>>, bs) : bs \in BuildingLists(n)} : n \in 0..MaxFiles}
    \cup {BuildingsArchive(<<OtherTable>>, bs) : bs \in BuildingLists(1)}
    \cup {RoomsArchive(<<>>, <<>>), RoomsArchive(<<OtherTable>>, <<>>),
          [zip |-> TRUE, entries |-> <<DirEntry(IndexName)>>]}

IngestArchives == SectionsArchives \cup RoomsArchives \cup {NotZip}

\* The store after addDataset("/", ArchiveR1, rooms) on the empty store.
StoreR1 == saveToDisk(<<>>, Dataset(<<"/">>, ingest(ArchiveR1, "rooms", <<1>>).rows, "rooms"))

InitIngest ==
    /\ disk \in {<<>>, StoreR1}
    /\ datasets = [f \in Facades |-> <<>>]
    /\ sectionDatasetArray = [f \in Facades |-> <<>>]
    /\ calls = <<>>
    /\ result = Outcome("none", <<>>, "-", NoContent, "ok", <<>>)
    /\ live = IF disk = <<>> THEN <<>>
              ELSE (<<"/">> :> [kind |-> "rooms", numRows |-> archiveRowCount(ArchiveR1, "rooms")])

IngestAdd ==
    /\ result.op = "none"
    /\ \E f \in Facades, content \in IngestArchives, kind \in Kinds :
          \E order \in Orders(parallelTasks(content, kind)) :
              AddDataset(f, <<"a">>, content, kind, order)

IngestList ==
    /\ result.op = "add"
    /\ \E f \in Facades : ListDatasets(f)

NextIngest == IngestAdd \/ IngestList

SpecIngest == InitIngest /\ [][NextIngest]_vars

----------------------------------------------------------------------------
(* One query out of a universe of queries, over a store that adds have left.  *)

\* The directory after a successful addDataset(id, content, kind).
added(d, id, content, kind) ==
    saveToDisk(d, Dataset(id, ingest(content, kind, [i \in 1..parallelTasks(content, kind) |-> i]).rows, kind))

\* A sections archive of three rows in two course files.
ArchiveS3 ==
    SectionsArchive(<<CourseJson(<<Element(<<"1">>, 1, <<"c">>, 90), Element(<<"overall">>, 2, <<"m">>, 70)>>),
                      CourseJson(<<Element(<<"1">>, 3, <<"c", "p">>, 70)>>)>>)

\* The stores: nothing, dataset "a" of sections, and "a" beside dataset "r" of
\* rooms, each with the datasets added and not removed.
QueryStores ==
    LET a == <<"a">> :> [kind |-> "sections", numRows |-> archiveRowCount(ArchiveS3, "sections")]
        r == <<"r">> :> [kind |-> "rooms", numRows |-> archiveRowCount(ArchiveR1, "rooms")]
    IN  {[disk |-> <<>>, live |-> <<>>],
         [disk |-> added(<<>>, <<"a">>, ArchiveS3, "sections"), live |-> a],
         [disk |-> added(added(<<>>, <<"a">>, ArchiveS3, "sections"), <<"r">>, ArchiveR1, "rooms"),
          live |-> a @@ r]}

\* The longest AND or OR array.
MaxBranch == 2

Patterns == {<<"c">>, <<"c", "*">>, <<"*", "p">>, <<"*">>, <<"c", ".">>, <<"c", "*", "p">>}

\* The comparisons on dataset id, numeric field num and string field str.
Comparisons(id, num, str) ==
    {Comparison(op, Key(id, num), Num(n)) : op \in {"GT", "LT", "EQ"}, n \in {70, 80}}
    \cup {Comparison("IS", Key(id, str), Str(p)) : p \in Patterns}
    \cup {Comparison("GT", Key(id, str), Num(70)), Comparison("IS", Key(id, num), Str(<<"c">>)),
          Comparison("EQ", Key(id, num), Str(<<"7", "0">>)), Comparison("IS", Key(id, str), Num(70))}

Leaves ==
    Comparisons(<<"a">>, "avg", "dept")
    \cup {Comparison("GT", Key(<<"a">>, "seats"), Num(70)), Comparison("GT", Key(<<"a">>, "mean"), Num(70)),
          Comparison("GT", Key(<<"r">>, "seats"), Num(30)), Comparison("IS", Key(<<"r">>, "shortname"), Str(<<"ACU">>)),
          Comparison("GT", Key(<<"z">>, "avg"), Num(70)), Comparison("NEAR", Key(<<"a">>, "avg"), Num(70)),
          Obj(<<Member("GT", Obj(<<>>))>>), Obj(<<Member("IS", Obj(<<>>))>>)}

\* The filters that AND and OR arrays are made of.
Operands ==
    {Comparison("GT", Key(<<"a">>, "avg"), Num(80)), Comparison("LT", Key(<<"a">>, "avg"), Num(80)),
     Comparison("IS", Key(<<"a">>, "dept"), Str(<<"c">>)), Comparison("IS", Key(<<"a">>, "dept"), Str(<<"c", "*">>)),
     Comparison("GT", Key(<<"a">>, "dept"), Num(70)), Comparison("GT", Key(<<"r">>, "seats"), Num(30)),
     Obj(<<Member("AND", Arr(<<>>))>>), Obj(<<Member("OR", Arr(<<>>))>>)}

Composites ==
    UNION {{Obj(<<Member(op, Arr(gs))>>) : op \in {"AND", "OR"}, gs \in [1..k -> Operands]} : k \in 0..MaxBranch}

Wheres ==
    Leaves \cup Composites \cup {Obj(<<Member("NOT", g)>>) : g \in Leaves \cup Composites}
    \cup {Obj(<<>>), Num(5), Obj(<<Member("NOT", Str(<<"c">>))>>), Obj(<<Member("AND", Obj(<<>>))>>)}

ColumnLists ==
    {<<Key(<<"a">>, "avg")>>, <<Key(<<"a">>, "dept"), Key(<<"a">>, "avg")>>, <<Key(<<"a">>, "uuid"), Key(<<"a">>, "year")>>,
     <<Key(<<"a">>, "avg"), <<"top">>>>, <<Key(<<"a">>, "avg"), Key(<<"r">>, "seats")>>, <<Key(<<"a">>, "seats")>>,
     <<Key(<<"r">>, "name"), Key(<<"r">>, "seats")>>, <<Key(<<"z">>, "avg")>>, <<>>}

Orders0 ==
    {Str(Key(<<"a">>, "avg")), Str(Key(<<"a">>, "dept")), Null, Num(1),
     Obj(<<Member("dir", Str(<<"DOWN">>)), Member("keys", Arr(<<Str(Key(<<"a">>, "dept")), Str(Key(<<"a">>, "avg"))>>))>>),
     Obj(<<Member("dir", Str(<<"UP">>)), Member("keys", Arr(<<>>))>>),
     Obj(<<Member("dir", Str(<<"up">>)), Member("keys", Arr(<<Str(Key(<<"a">>, "avg"))>>))>>)}

\* The OPTIONS objects: COLUMNS alone, or with an ORDER.
OptionsSet ==
    {Obj(<<Member("COLUMNS", Arr([i \in 1..Len(cs) |-> Str(cs[i])]))>>) : cs \in ColumnLists}
    \cup {Obj(<<Member("COLUMNS", Arr([i \in 1..Len(cs) |-> Str(cs[i])])), Member("ORDER", o)>>) :
             cs \in {<<Key(<<"a">>, "avg")>>, <<Key(<<"a">>, "dept"), Key(<<"a">>, "avg")>>}, o \in Orders0}
    \cup {Obj(<<Member("ORDER", Str(Key(<<"a">>, "avg")))>>),
          Obj(<<Member("COLUMNS", Arr(<<Str(Key(<<"a">>, "avg"))>>)), Member("LIMIT", Num(1))>>),
          Obj(<<Member("COLUMNS", Arr(<<Str(Key(<<"r">>, "seats"))>>)), Member("ORDER", Str(Key(<<"r">>, "seats")))>>)}

Queries ==
    {Obj(<<Member("WHERE", w), Member("OPTIONS", o)>>) : w \in Wheres, o \in OptionsSet}
    \cup {Obj(<<Member("OPTIONS", o)>>) : o \in OptionsSet}
    \cup {Obj(<<Member("WHERE", w)>>) : w \in Wheres}
    \cup {Str(<<"q">>), Null, Arr(<<>>)}

InitQuery ==
    /\ \E store \in QueryStores : disk = store.disk /\ live = store.live
    /\ datasets = [f \in Facades |-> <<>>]
    /\ sectionDatasetArray = [f \in Facades |-> <<>>]
    /\ calls = <<>>
    /\ result = Outcome("none", <<>>, "-", NoContent, "ok", <<>>)

Query ==
    /\ result.op = "none"
    /\ \E f \in Facades, query \in Queries : PerformQuery(f, query)

NextQuery == Query

SpecQuery == InitQuery /\ [][NextQuery]_vars

----------------------------------------------------------------------------------------------------------------------------------------
(* One query over a store with datasets beyond the limit of a result.         *)

\* The rows of a sections dataset of n sections, as processSection builds them:
\* two departments, three averages, the uuid and the pass count the section's number.
BigSections(n) ==
    [i \in 1..n |-> Section(Str(numberToString(i)), Str(<<"3", "1", "0">>), Str(<<"t">>), Str(<<"p">>),
                            Str(IF i % 2 = 0 THEN <<"c">> ELSE <<"m">>), Num(2015), Num(60 + (i % 3)),
                            Num(i), Num(1), Num(0))]

\* The rows of a rooms dataset of n rooms of one building, as parseRoomRow builds
\* them: two types, the number and the seats the room's number.
BigRooms(n) ==
    [i \in 1..n |-> Room(Str(<<"Hall ", "ACU">>), Str(<<"ACU">>), Str(numberToString(i)),
                         Str(<<"ACU", "_">> \o numberToString(i)), Str(<<"1 Main Mall">>), Num(49), Num(123),
                         Num(i), Str(IF i % 2 = 0 THEN <<"Small Group">> ELSE <<"Studio Lab">>),
                         Str(<<"Tables ", "&", " Chairs">>), Str(<<"http://rooms/">> \o numberToString(i)))]

\* The store after three adds: sections dataset "a" and rooms dataset "r" of
\* n rows, sections dataset "s" of three rows.
LimitStore(n) ==
    saveToDisk(saveToDisk(saveToDisk(<<>>, Dataset(<<"a">>, BigSections(n), "sections")),
                          Dataset(<<"r">>, BigRooms(n), "rooms")),
               Dataset(<<"s">>, BigSections(3), "sections"))

LimitLive ==
    <<"a">> :> [kind |-> "sections", numRows |-> limit + 1]
    @@ <<"r">> :> [kind |-> "rooms", numRows |-> limit + 1]
    @@ <<"s">> :> [kind |-> "sections", numRows |-> 3]

\* {applyKey: {op: key}}
ApplyRule(applyKey, op, key) == Obj(<<[k |-> applyKey, val |-> Obj(<<[k |-> <<op>>, val |-> Str(key)]>>)]>>)

\* {GROUP: group, APPLY: apply}
Transformations(group, apply) ==
    Obj(<<Member("GROUP", Arr([i \in 1..Len(group) |-> Str(group[i])])), Member("APPLY", Arr(apply))>>)

\* The filters over dataset id whose numeric field num is the row's number: they
\* keep every row, every row, every row but the first, and the first two rows.
LimitWheres(id, num) ==
    {Obj(<<>>), Comparison("GT", Key(id, num), Num(0)), Comparison("GT", Key(id, num), Num(1)),
     Obj(<<Member("NOT", Comparison("GT", Key(id, num), Num(2)))>>)}

\* The valid queries over dataset id with the numeric field num and the fields str
\* and other: plain ones, and ones that group the rows by str or by other.
LimitQueriesOver(id, num, str, other) ==
    {Obj(<<Member("WHERE", w), Member("OPTIONS", Obj(<<Columns(cs)>>))>>) :
        w \in LimitWheres(id, num), cs \in {<<Key(id, str)>>, <<Key(id, other), Key(id, num)>>}}
    \cup {Obj(<<Member("WHERE", w), Member("OPTIONS", Obj(<<Columns(g)>>)),
                Member("TRANSFORMATIONS", Transformations(g, <<>>))>>) :
             w \in LimitWheres(id, num), g \in {<<Key(id, str)>>, <<Key(id, other)>>}}
    \cup {Obj(<<Member("WHERE", w), Member("OPTIONS", Obj(<<Columns(<<Key(id, str), <<"n">>>>)>>)),
                Member("TRANSFORMATIONS",
                       Transformations(<<Key(id, str)>>, <<ApplyRule(<<"n">>, "COUNT", Key(id, num))>>))>>) :
             w \in LimitWheres(id, num)}

\* The same queries with an ORDER on the first column, up or down.
OrderedLimitQueriesOver(id, num, str, other) ==
    {Obj(<<q.v[1],
           Member("OPTIONS", Obj(<<q.v[2].val.v[1],
                                   Member("ORDER", Obj(<<Member("dir", Str(<<dir>>)),
                                                         Member("keys", Arr(<<q.v[2].val.v[1].val.v[1]>>))>>))>>))>>
         \o SubSeq(q.v, 3, Len(q.v))) :
        q \in LimitQueriesOver(id, num, str, other), dir \in {"UP", "DOWN"}}

\* The large sections dataset is asked without ORDER, and grouped by department
\* over all its rows or all but the first.
LargeQueries ==
    {q \in LimitQueriesOver(<<"a">>, "pass", "dept", "avg") :
        Len(q.v) = 3 => /\ q.v[1].val \in {Obj(<<>>), Comparison("GT", Key(<<"a">>, "pass"), Num(1))}
                        /\ prop(q.v[3].val, <<"GROUP">>) = Arr(<<Str(Key(<<"a">>, "dept"))>>)}

LimitQueries ==
    LargeQueries
    \cup LimitQueriesOver(<<"r">>, "seats", "type", "shortname")
    \cup OrderedLimitQueriesOver(<<"r">>, "seats", "type", "shortname")
    \cup LimitQueriesOver(<<"s">>, "pass", "dept", "avg")
    \cup OrderedLimitQueriesOver(<<"s">>, "pass", "dept", "avg")

InitLimit ==
    /\ disk = LimitStore(limit + 1)
    /\ live = LimitLive
    /\ datasets = [f \in Facades |-> <<>>]
    /\ sectionDatasetArray = [f \in Facades |-> <<>>]
    /\ calls = <<>>
    /\ result = Outcome("none", <<>>, "-", NoContent, "ok", <<>>)

LimitQuery ==
    /\ result.op = "none"
    /\ \E query \in LimitQueries : PerformQuery(1, query)

NextLimit == LimitQuery

SpecLimit == InitLimit /\ [][NextLimit]_vars

----------------------------------------------------------------------------
(* One query, with or without TRANSFORMATIONS, over two sections datasets.    *)

\* A section as processSection builds it, with the given uuid, department and
\* average; the pass count is the uuid's number.
GroupSection(i, dept, avg) ==
    Section(Str(numberToString(i)), Str(<<"3", "1", "0">>), Str(<<"t">>), Str(<<"p">>), Str(<<dept>>),
            Num(2015), Num(avg), Num(i), Num(1), Num(0))

\* The store after two adds: sections dataset "a" with the averages 9, 10 and 10
\* in two departments, sections dataset "s" with one section of another department.
GroupStore ==
    saveToDisk(saveToDisk(<<>>, Dataset(<<"a">>, <<GroupSection(1, "c", 9), GroupSection(2, "m", 10),
                                                    GroupSection(3, "c", 10)>>, "sections")),
               Dataset(<<"s">>, <<GroupSection(7, "p", 50)>>, "sections"))

GroupLive ==
    <<"a">> :> [kind |-> "sections", numRows |-> 3] @@ <<"s">> :> [kind |-> "sections", numRows |-> 1]

\* The array filter {op: gs}.
Logic(op, gs) == Obj(<<Member(op, Arr(gs))>>)

\* Filters over dataset "a" that every row, some rows and no row satisfy.
AllRows == Comparison("GT", Key(<<"a">>, "avg"), Num(0))

SomeRows == Comparison("GT", Key(<<"a">>, "avg"), Num(9))

NoRows == Comparison("GT", Key(<<"a">>, "avg"), Num(100))

\* The WHERE objects: the filters above, a filter over dataset "s", and trees
\* with an empty AND or OR at the top, beside a sibling that decides before it or
\* after it, under NOT, and two levels down.
GroupWheres ==
    {Obj(<<>>), AllRows, SomeRows, NoRows, Comparison("GT", Key(<<"s">>, "avg"), Num(0)),
     Logic("AND", <<>>), Logic("OR", <<>>),
     Logic("OR", <<AllRows, Logic("AND", <<>>)>>), Logic("OR", <<NoRows, Logic("AND", <<>>)>>),
     Logic("AND", <<NoRows, Logic("OR", <<>>)>>), Logic("AND", <<AllRows, Logic("OR", <<>>)>>),
     Logic("AND", <<Logic("OR", <<>>), NoRows>>),
     Obj(<<Member("NOT", Logic("OR", <<AllRows, Logic("OR", <<>>)>>))>>),
     Logic("OR", <<Logic("AND", <<NoRows, Logic("AND", <<>>)>>), SomeRows>>)}

\* ORDER {dir, keys}.
OrderBy(dir, keys) ==
    Member("ORDER", Obj(<<Member("dir", Str(<<dir>>)), Member("keys", Arr([i \in 1..Len(keys) |-> Str(keys[i])]))>>))

\* OPTIONS with the columns and each of the ORDERs.
OptionsWith(cs, orders) == {Obj(<<Columns(cs)>>)} \cup {Obj(<<Columns(cs), o>>) : o \in orders}

\* The ORDERs on a column: its name, up, down, and null.
OrdersOn(key) == {Member("ORDER", Str(key)), OrderBy("UP", <<key>>), OrderBy("DOWN", <<key>>), Member("ORDER", Null)}

\* OPTIONS without TRANSFORMATIONS: columns of "a", of "s", of both, a key of
\* no field of a section, and a column that is no key.
PlainOptions ==
    OptionsWith(<<Key(<<"a">>, "dept"), Key(<<"a">>, "avg")>>,
                OrdersOn(Key(<<"a">>, "avg"))
                \cup {OrderBy("DOWN", <<Key(<<"a">>, "avg"), Key(<<"a">>, "dept")>>),
                      OrderBy("UP", <<Key(<<"a">>, "dept"), Key(<<"a">>, "avg")>>)})
    \cup OptionsWith(<<Key(<<"s">>, "dept")>>, OrdersOn(Key(<<"s">>, "dept")))
    \cup {Obj(<<Columns(cs)>>) : cs \in {<<Key(<<"a">>, "avg"), Key(<<"s">>, "dept")>>, <<Key(<<"a">>, "seats")>>,
                                         <<Key(<<"a">>, "avg"), <<"top">>>>}}

\* OPTIONS and TRANSFORMATIONS together, as the last two members of a query.
Grouped(options, group, apply) ==
    {<<Member("OPTIONS", o), Member("TRANSFORMATIONS", Transformations(group, apply))>> : o \in options}

\* The queries' last two members with TRANSFORMATIONS: groups of "a" by
\* department, by average and by both, with and without rules and ORDER; COLUMNS
\* with a key outside GROUP; one apply key in two rules; a rule absent from
\* COLUMNS and a column that no rule declares; GROUP and rules over "s".
GroupedParts ==
    LET dept == Key(<<"a">>, "dept")
        avg == Key(<<"a">>, "avg")
    IN  Grouped(OptionsWith(<<dept>>, OrdersOn(dept)), <<dept>>, <<>>)
        \cup Grouped(OptionsWith(<<avg>>, OrdersOn(avg)), <<avg>>, <<>>)
        \cup Grouped(OptionsWith(<<dept, avg>>, {OrderBy("UP", <<dept, avg>>), OrderBy("DOWN", <<avg, dept>>)}),
                     <<dept, avg>>, <<>>)
        \cup UNION {Grouped(OptionsWith(<<dept, <<"n">>>>, {OrderBy("DOWN", <<<<"n">>, dept>>), Member("ORDER", Str(<<"n">>))}),
                            <<dept>>, <<ApplyRule(<<"n">>, op, avg)>>) : op \in {"MAX", "AVG", "COUNT", "SUM", "MIN"}}
        \cup Grouped({Obj(<<Columns(<<dept, avg>>)>>), Obj(<<Columns(<<avg>>)>>)}, <<dept>>, <<>>)
        \cup Grouped({Obj(<<Columns(<<dept, <<"n">>>>)>>)}, <<dept>>,
                     <<ApplyRule(<<"n">>, "COUNT", avg), ApplyRule(<<"n">>, "MAX", avg)>>)
        \cup Grouped({Obj(<<Columns(<<dept, <<"n">>, <<"x">>>>)>>)}, <<dept>>,
                     <<ApplyRule(<<"n">>, "COUNT", avg), ApplyRule(<<"x">>, "MAX", avg)>>)
        \cup Grouped({Obj(<<Columns(<<dept>>)>>)}, <<dept>>, <<ApplyRule(<<"n">>, "MAX", avg)>>)
        \cup Grouped({Obj(<<Columns(<<dept, <<"n">>>>)>>)}, <<dept>>, <<>>)
        \cup Grouped({Obj(<<Columns(<<dept, <<"n">>>>)>>)}, <<dept>>, <<ApplyRule(<<"n">>, "MAX", Key(<<"a">>, "dept"))>>)
        \cup Grouped({Obj(<<Columns(<<dept, <<"n">>>>)>>)}, <<dept>>, <<ApplyRule(<<"n">>, "COUNT", Key(<<"s">>, "avg"))>>)
        \cup Grouped({Obj(<<Columns(<<dept>>)>>)}, <<Key(<<"s">>, "dept")>>, <<>>)
        \cup Grouped(OptionsWith(<<Key(<<"s">>, "dept")>>, {}), <<Key(<<"s">>, "dept")>>, <<>>)

GroupQueries ==
    {Obj(<<Member("WHERE", w), Member("OPTIONS", o)>>) : w \in GroupWheres, o \in PlainOptions}
    \cup {Obj(<<Member("WHERE", w)>> \o part) : w \in GroupWheres, part \in GroupedParts}

InitGroup ==
    /\ disk = GroupStore
    /\ live = GroupLive
    /\ datasets = [f \in Facades |-> <<>>]
    /\ sectionDatasetArray = [f \in Facades |-> <<>>]
    /\ calls = <<>>
    /\ result = Outcome("none", <<>>, "-", NoContent, "ok", <<>>)

GroupQuery ==
    /\ result.op = "none"
    /\ \E query \in GroupQueries : PerformQuery(1, query)

NextGroup == GroupQuery

SpecGroup == InitGroup /\ [][NextGroup]_vars

----------------------------------------------------------------------------
(* One IS comparison of a field's value with a pattern.                       *)

\* The longest field value and the longest pattern.
MaxValueLen == 2

MaxPatternLen == 3

\* The strings over the characters of up to n characters.
StringsUpTo(chars, n) == UNION {[1..k -> chars] : k \in 0..n}

InitIs ==
    /\ disk = <<>>
    /\ live = <<>>
    /\ datasets = [f \in Facades |-> <<>>]
    /\ sectionDatasetArray = [f \in Facades |-> <<>>]
    /\ calls = <<>>
    /\ result = Outcome("none", <<>>, "-", NoContent, "ok", <<>>)

\* QueryHelper.handleISComparator(contentValue, value) for a field's string and
\* the string of the filter.
Is ==
    /\ result.op = "none"
    /\ \E contentValue \in StringsUpTo({"c", "p", "."}, MaxValueLen),
          value \in StringsUpTo({"c", "p", ".", "*"}, MaxPatternLen) :
          result' = [op |-> "is", id |-> <<>>, kind |-> "-", content |-> NoContent,
                     status |-> handleISComparator(Str(contentValue), Str(value)), value |-> <<>>,
                     contentValue |-> contentValue, pattern |-> value]
    /\ UNCHANGED <<disk, datasets, live, sectionDatasetArray, calls>>

NextIs == Is

SpecIs == InitIs /\ [][NextIs]_vars

----------------------------------------------------------------------------
(* One query with TRANSFORMATIONS over a sections dataset whose strings hold  *)
(* the character "|".                                                         *)

\* A section as processSection builds it, with the given uuid (its pass count),
\* department, title and year.
TupleSection(i, dept, title, year) ==
    Section(Str(numberToString(i)), Str(<<"3", "1", "0">>), Str(title), Str(<<"p">>), Str(dept),
            Num(year), Num(70), Num(i), Num(1), Num(0))

\* The store after one add: sections dataset "a" of four sections; the first two
\* differ in department and title and have "c|m|p" when both are joined with "|".
TupleStore ==
    saveToDisk(<<>>, Dataset(<<"a">>, <<TupleSection(1, <<"c", "|", "m">>, <<"p">>, 2015),
                                         TupleSection(2, <<"c">>, <<"m", "|", "p">>, 2015),
                                         TupleSection(3, <<"c">>, <<"p">>, 1900),
                                         TupleSection(4, <<"c">>, <<"p">>, 2015)>>, "sections"))

TupleLive == <<"a">> :> [kind |-> "sections", numRows |-> 4]

\* The GROUP lists: one or two different keys of "a".
TupleGroups ==
    LET keys == {Key(<<"a">>, field) : field \in {"dept", "title", "year", "pass"}}
    IN  {<<k>> : k \in keys} \cup {<<k, l>> : <<k, l>> \in {pair \in keys \X keys : pair[1] # pair[2]}}

\* The WHERE objects: every row, the rows after the first, the first two rows,
\* and the rows of department "c".
TupleWheres ==
    {Obj(<<>>), Comparison("GT", Key(<<"a">>, "pass"), Num(1)), Comparison("LT", Key(<<"a">>, "pass"), Num(3)),
     Comparison("IS", Key(<<"a">>, "dept"), Str(<<"c">>))}

\* The queries: COLUMNS are the GROUP keys, alone or with the count of the group.
TupleQueries ==
    {Obj(<<Member("WHERE", w), Member("OPTIONS", Obj(<<Columns(group)>>)),
           Member("TRANSFORMATIONS", Transformations(group, <<>>))>>) : w \in TupleWheres, group \in TupleGroups}
    \cup {Obj(<<Member("WHERE", w), Member("OPTIONS", Obj(<<Columns(group \o <<<<"n">>>>)>>)),
                Member("TRANSFORMATIONS", Transformations(group, <<ApplyRule(<<"n">>, "COUNT", Key(<<"a">>, "uuid"))>>))>>) :
             w \in TupleWheres, group \in TupleGroups}

InitTuple ==
    /\ disk = TupleStore
    /\ live = TupleLive
    /\ datasets = [f \in Facades |-> <<>>]
    /\ sectionDatasetArray = [f \in Facades |-> <<>>]
    /\ calls = <<>>
    /\ result = Outcome("none", <<>>, "-", NoContent, "ok", <<>>)

TupleQuery ==
    /\ result.op = "none"
    /\ \E query \in TupleQueries : PerformQuery(1, query)

NextTuple == TupleQuery

SpecTuple == InitTuple /\ [][NextTuple]_vars

----------------------------------------------------------------------------
(* Operations in flight together.  An asynchronous operation runs from one     *)
(* await to the next without interruption; between two awaits the steps of    *)
(* other operations may run.  A step below is what one awaited file-system or *)
(* zip operation does, followed by the operation's code up to its next await. *)

\* The most operations in flight or settled in one run.
MaxCalls == 2

\* What a file holds between the open of fs.writeFile, which truncates it, and
\* the write of the text: nothing, which JSON.parse refuses.
Truncated == [truncated |-> TRUE]

\* The file saveToDisk, doesDatasetExist and loadFromDisk use for an id.
filePathOf(id) == fileAt(joinDataDir(encodeDatasetId(id) \o JsonExt))

\* A call of an operation on facade f, before its first step.
NewCall(op, f, id, content, pc) ==
    [op |-> op, f |-> f, id |-> id, content |-> content, pc |-> pc, exists |-> FALSE, pending |-> {},
     failed |-> FALSE, jsonData |-> Truncated, files |-> <<>>, read |-> <<>>, status |-> "pending", value |-> <<>>]

\* The call once its promise has settled.
Settled(call, status, value) == [call EXCEPT !.pc = "done", !.status = status, !.value = value]

\* The outcome of a settled call.
OutcomeOf(call) ==
    Outcome(call.op, call.id, IF call.op = "add" THEN "sections" ELSE "-", call.content, call.status, call.value)

\* The call c moves on to `next`; a promise that settles is the last outcome.
Moves(c, next) ==
    /\ calls' = [calls EXCEPT ![c] = next]
    /\ result' = IF next.status # "pending" /\ calls[c].status = "pending" THEN OutcomeOf(next) ELSE result

\* addDataset(id, content, Sections) is called on facade f: validDatasetID throws
\* or the call awaits doesDatasetExist.
CallAdd(f, id, content) ==
    /\ Len(calls) < MaxCalls
    /\ LET call == NewCall("add", f, id, content, "exists")
           next == IF ~validDatasetID(id) THEN Settled(call, "InsightError", <<>>) ELSE call
       IN  /\ calls' = Append(calls, next)
           /\ result' = IF next.status # "pending" THEN OutcomeOf(next) ELSE result
    /\ UNCHANGED <<disk, datasets, live, sectionDatasetArray>>

\* fs.access of doesDatasetExist answers.
AddDoesDatasetExist(c) ==
    /\ calls[c].op = "add" /\ calls[c].pc = "exists"
    /\ Moves(c, [calls[c] EXCEPT !.pc = "begin", !.exists = doesDatasetExist(disk, calls[c].id)])
    /\ UNCHANGED <<disk, datasets, live, sectionDatasetArray>>

\* addDataset goes on after doesDatasetExist: it throws for a stored id, else
\* processSectionKind empties sectionDatasetArray, loads the zip, validates it and
\* starts one processJsonData per course file.
AddProcessSectionKind(c) ==
    /\ calls[c].op = "add" /\ calls[c].pc = "begin"
    /\ LET call == calls[c]
       IN  IF call.exists
           THEN /\ Moves(c, Settled(call, "InsightError", <<>>))
                /\ UNCHANGED sectionDatasetArray
           ELSE /\ sectionDatasetArray' = [sectionDatasetArray EXCEPT ![call.f] = <<>>]
                /\ IF ~isBase64(call.content) \/ ~call.content.zip \/ ~validZip(call.content)
                   THEN Moves(c, Settled(call, "InsightError", <<>>))
                   ELSE Moves(c, [call EXCEPT !.pc = "files",
                                              !.pending = 1..Len(courseFiles(call.content))])
    /\ UNCHANGED <<disk, datasets, live>>

\* processJsonData of the call's course file i goes on after file.async: it pushes
\* the file's sections to sectionDatasetArray as it is now.  The first task that
\* throws rejects the call (the other tasks still run); after the last task of a
\* call that no task rejected, processSectionKind makes the dataset out of
\* sectionDatasetArray and saveToDisk turns it into text.
AddProcessJsonData(c, i) ==
    /\ calls[c].op = "add" /\ i \in calls[c].pending
    /\ LET call == calls[c]
           done == processJsonData(courseFiles(call.content)[i].data)
           array == sectionDatasetArray[call.f] \o done.pushed
           left == [call EXCEPT !.pending = @ \ {i}, !.failed = @ \/ ~done.ok]
       IN  /\ sectionDatasetArray' = [sectionDatasetArray EXCEPT ![call.f] = array]
           /\ IF call.status # "pending" THEN Moves(c, left)
              ELSE IF ~done.ok THEN Moves(c, Settled(left, "InsightError", <<>>))
              ELSE IF left.pending # {} THEN Moves(c, left)
              ELSE Moves(c, [left EXCEPT !.pc = "truncate",
                                         !.jsonData = Dataset(call.id, jsonRows(array), "sections")])
    /\ UNCHANGED <<disk, datasets, live>>

\* fs.writeFile of saveToDisk opens the file, which creates or truncates it.
AddSaveToDisk(c) ==
    /\ calls[c].op = "add" /\ calls[c].pc = "truncate"
    /\ disk' = [f \in DOMAIN disk \cup {filePathOf(calls[c].id)} |->
                   IF f = filePathOf(calls[c].id) THEN Truncated ELSE disk[f]]
    /\ Moves(c, [calls[c] EXCEPT !.pc = "write"])
    /\ UNCHANGED <<datasets, live, sectionDatasetArray>>

\* fs.writeFile writes the text.
AddWriteFile(c) ==
    /\ calls[c].op = "add" /\ calls[c].pc = "write"
    /\ disk' = [f \in DOMAIN disk \cup {filePathOf(calls[c].id)} |->
                   IF f = filePathOf(calls[c].id) THEN calls[c].jsonData ELSE disk[f]]
    /\ Moves(c, [calls[c] EXCEPT !.pc = "ids"])
    /\ UNCHANGED <<datasets, live, sectionDatasetArray>>

\* fs.readdir of getAllDatasetIds answers and addDataset resolves with the ids.
AddGetAllDatasetIds(c) ==
    /\ calls[c].op = "add" /\ calls[c].pc = "ids"
    /\ Moves(c, Settled(calls[c], "ok", getAllDatasetIds(disk)))
    /\ live' = [i \in DOMAIN live \cup {calls[c].id} |->
                   IF i = calls[c].id
                   THEN [kind |-> "sections", numRows |-> archiveRowCount(calls[c].content, "sections")]
                   ELSE live[i]]
    /\ UNCHANGED <<disk, datasets, sectionDatasetArray>>

\* removeDataset(id) is called on facade f: validDatasetID throws or the call
\* awaits doesDatasetExist.
CallRemove(f, id) ==
    /\ Len(calls) < MaxCalls
    /\ LET call == NewCall("remove", f, id, NoContent, "exists")
           next == IF ~validDatasetID(id) THEN Settled(call, "InsightError", <<>>) ELSE call
       IN  /\ calls' = Append(calls, next)
           /\ result' = IF next.status # "pending" THEN OutcomeOf(next) ELSE result
    /\ UNCHANGED <<disk, datasets, live, sectionDatasetArray>>

\* fs.access of doesDatasetExist answers: removeDataset throws NotFoundError or
\* awaits fs.remove.
RemoveDoesDatasetExist(c) ==
    /\ calls[c].op = "remove" /\ calls[c].pc = "exists"
    /\ IF doesDatasetExist(disk, calls[c].id) THEN Moves(c, [calls[c] EXCEPT !.pc = "unlink", !.exists = TRUE])
       ELSE Moves(c, Settled(calls[c], "NotFoundError", <<>>))
    /\ UNCHANGED <<disk, datasets, live, sectionDatasetArray>>

\* fs.remove deletes the file and removeDataset resolves with the id.
RemoveFsRemove(c) ==
    /\ calls[c].op = "remove" /\ calls[c].pc = "unlink"
    /\ disk' = fsRemove(disk, removePath(calls[c].id))
    /\ datasets' = [datasets EXCEPT ![calls[c].f] = splice1(@, indexOf(@, calls[c].id))]
    /\ Moves(c, Settled(calls[c], "ok", calls[c].id))
    /\ live' = [i \in DOMAIN live \ {calls[c].id} |-> live[i]]
    /\ UNCHANGED sectionDatasetArray

\* listDatasets() is called on facade f and awaits getAllDatasetIds.
CallList(f) ==
    /\ Len(calls) < MaxCalls
    /\ calls' = Append(calls, NewCall("list", f, <<>>, NoContent, "ids"))
    /\ UNCHANGED <<disk, datasets, result, live, sectionDatasetArray>>

\* fs.readdir of getAllDatasetIds answers: listDatasets resolves with [] for a
\* directory without datasets, else it awaits getAllDatasets.
ListGetAllDatasetIds(c) ==
    /\ calls[c].op = "list" /\ calls[c].pc = "ids"
    /\ IF Len(getAllDatasetIds(disk)) < 1 THEN Moves(c, Settled(calls[c], "ok", <<>>))
       ELSE Moves(c, [calls[c] EXCEPT !.pc = "readdir"])
    /\ UNCHANGED <<disk, datasets, live, sectionDatasetArray>>

\* fs.readdir of getAllDatasets answers: one task per .json file reads it.
ListReaddir(c) ==
    /\ calls[c].op = "list" /\ calls[c].pc = "readdir"
    /\ LET files == SelectSeq(readdir(disk), LAMBDA fileName : endsWith(fileName, JsonExt))
       IN  IF files = <<>> THEN Moves(c, Settled(calls[c], "ok", <<>>))
           ELSE Moves(c, [calls[c] EXCEPT !.pc = "read", !.files = files, !.pending = 1..Len(files),
                                          !.read = [i \in 1..Len(files) |-> Truncated]])
    /\ UNCHANGED <<disk, datasets, live, sectionDatasetArray>>

\* The document of a file as getAllDatasets parses it.
parseDataset(parsed) ==
    IF parsed.kind = "sections" THEN parseSectionsDataset(parsed.id, parsed.sections)
    ELSE parseRoomsDataset(parsed.id, parsed.rooms)

\* What listDatasets resolves with for the datasets getAllDatasets gave.
insightData(allData) ==
    [i \in 1..Len(allData) |->
        [id |-> allData[i].id, kind |-> allData[i].kind, numRows |-> Len(getContent(allData[i]))]]

\* fs.readFile of the task of file i answers: a file that is gone, or text that
\* JSON.parse refuses, rejects getAllDatasets and with it listDatasets ("Error":
\* the error is not an InsightError); after the last file listDatasets resolves.
ListReadFile(c, i) ==
    /\ calls[c].op = "list" /\ calls[c].pc = "read" /\ i \in calls[c].pending
    /\ LET call == calls[c]
           fileName == call.files[i]
           left == [call EXCEPT !.pending = @ \ {i}]
       IN  IF fileName \notin DOMAIN disk \/ disk[fileName] = Truncated
           THEN Moves(c, Settled(left, "Error", <<>>))
           ELSE LET read == [call.read EXCEPT ![i] = parseDataset(disk[fileName])]
                IN  IF left.pending # {} THEN Moves(c, [left EXCEPT !.read = read])
                    ELSE Moves(c, Settled([left EXCEPT !.read = read], "ok", insightData(read)))
    /\ UNCHANGED <<disk, datasets, live, sectionDatasetArray>>

\* The archives of the runs: two course files of one section each, and one course
\* file of one section.
RaceArchiveA ==
    SectionsArchive(<<CourseJson(<<Element(<<"1">>, 1, <<"c">>, 90)>>), CourseJson(<<Element(<<"1">>, 2, <<"m">>, 70)>>)>>)

RaceArchiveB == SectionsArchive(<<CourseJson(<<Element(<<"1">>, 3, <<"p">>, 80)>>)>>)

\* The store before the runs: sections dataset "s" of one section.
RaceStore == added(<<>>, <<"s">>, SectionsArchive(<<CourseJson(<<Element(<<"1">>, 7, <<"t">>, 50)>>)>>), "sections")

InitRace ==
    /\ disk = RaceStore
    /\ live = <<"s">> :> [kind |-> "sections", numRows |-> 1]
    /\ datasets = [f \in Facades |-> <<>>]
    /\ sectionDatasetArray = [f \in Facades |-> <<>>]
    /\ calls = <<>>
    /\ result = Outcome("none", <<>>, "-", NoContent, "ok", <<>>)

RaceCall ==
    \/ \E f \in Facades, id \in {<<"a">>, <<"b">>, <<"a", "_">>}, content \in {RaceArchiveA, RaceArchiveB, NotZip} :
          CallAdd(f, id, content)
    \/ \E f \in Facades, id \in {<<"a">>, <<"s">>, <<"a", "_">>} : CallRemove(f, id)
    \/ \E f \in Facades : CallList(f)

RaceStep ==
    \E c \in DOMAIN calls :
        \/ AddDoesDatasetExist(c)
        \/ AddProcessSectionKind(c)
        \/ \E i \in calls[c].pending : AddProcessJsonData(c, i)
        \/ AddSaveToDisk(c)
        \/ AddWriteFile(c)
        \/ AddGetAllDatasetIds(c)
        \/ RemoveDoesDatasetExist(c)
        \/ RemoveFsRemove(c)
        \/ ListGetAllDatasetIds(c)
        \/ ListReaddir(c)
        \/ \E i \in calls[c].pending : ListReadFile(c, i)

NextRace == RaceCall \/ RaceStep

SpecRace == InitRace /\ [][NextRace]_vars

----------------------------------------------------------------------------
(* The store's life cycle with removals through the server: adds through the  *)
(* server's facade, and DELETE requests.                                      *)

\* The ids a route parameter :id can carry: the route has no empty one.
ParamIds == Ids \ {<<>>}

\* Server.addDataset, PUT /dataset/:id/courses: the kind is always Sections.

ServerAdd ==
    \E id \in ParamIds, content \in LifeArchives :
        \E order \in Orders(parallelTasks(content, "sections")) :
            /\ AddDataset(1, id, content, "sections", order)
            /\ Cardinality(DOMAIN disk') <= MaxStored

ServerDelete == \E id \in ParamIds : ServerRemoveDataset(id)

NextServer == ServerAdd \/ ServerDelete

SpecServer == Init /\ [][NextServer]_vars

----------------------------------------------------------------------------
(* Properties of the store's life cycle. *)

\* The ids of the datasets the directory holds.
StoredIds(d) == {d[f].id : f \in DOMAIN d}

\* The listing's entries for one id.
EntriesFor(listing, id) == SelectSeq(listing, LAMBDA e : e.id = id)

\* An order for the tasks of an add (the first, when there is a choice).
SomeOrder(content, kind) == [i \in 1..parallelTasks(content, kind) |-> i]

\* An id the facade must refuse: empty, only white space, or with an underscore.
IsBadId(id) == id = <<>> \/ (\A i \in 1..Len(id) : id[i] \in WhiteSpace) \/ "_" \in Range(id)

\* C1: an addDataset of an id under which a dataset is stored rejects with
\* InsightError and leaves the directory as it was.
C1_DuplicateAddRejected ==
    [][(result'.op = "add" /\ result'.id \in StoredIds(disk))
        => (result'.status = "InsightError" /\ disk' = disk)]_vars

\* C1 happens: a valid archive is refused for an id stored with the other kind.
C1_Witness ==
    /\ result.op = "add" /\ result.status = "InsightError"
    /\ ingest(result.content, result.kind, SomeOrder(result.content, result.kind)).status = "ok"
    /\ \E f \in DOMAIN disk : disk[f].id = result.id /\ disk[f].kind # result.kind

\* C2: once removeDataset(id) has resolved, the dataset is absent: a listing omits
\* id, another removeDataset(id) rejects with NotFoundError, and an addDataset of id
\* with a good archive is accepted.
C2_RemovedIsAbsent ==
    (result.op = "remove" /\ result.status = "ok")
        => /\ EntriesFor(listDatasets(disk), result.id) = <<>>
           /\ removeStatus(disk, result.id) = "NotFoundError"
           /\ addStatus(disk, result.id, ArchiveS2, "sections", SomeOrder(ArchiveS2, "sections")) = "ok"

\* C3: right after a successful addDataset(id, content, kind), listDatasets has
\* exactly one entry for id, with that kind and the archive's number of rows.
C3_AddedIsListedOnce ==
    (result.op = "add" /\ result.status = "ok")
        => LET entries == EntriesFor(listDatasets(disk), result.id)
           IN  /\ Len(entries) = 1
               /\ entries[1].kind = result.kind
               /\ entries[1].numRows = archiveRowCount(result.content, result.kind)

\* C3 happens: a rooms dataset was added beside a sections dataset.
C3_Witness ==
    /\ result.op = "add" /\ result.status = "ok" /\ result.kind = "rooms"
    /\ Len(listDatasets(disk)) = 2
    /\ \E i \in 1..2 : listDatasets(disk)[i].kind = "sections" /\ listDatasets(disk)[i].numRows = 2

\* C4: removeDataset of a valid id under which nothing is stored rejects with
\* NotFoundError and leaves the directory as it was; removeDataset of a stored id
\* resolves with that id.
C4_RemoveAbsentNotFound ==
    [][result'.op = "remove" /\ validDatasetID(result'.id)
        => IF result'.id \in StoredIds(disk)
           THEN result'.status = "ok" /\ result'.value = result'.id
           ELSE result'.status = "NotFoundError" /\ disk' = disk]_vars

\* C4 happens: a remove was refused with NotFoundError while another dataset is stored.
C4_Witness ==
    /\ result.op = "remove" /\ result.status = "NotFoundError"
    /\ disk # <<>>

\* C5: addDataset and removeDataset reject an empty, white-space or underscore id
\* with InsightError (never NotFoundError) and leave the directory as it was.
C5_BadIdRejected ==
    [][(result'.op \in {"add", "remove"} /\ IsBadId(result'.id))
        => (result'.status = "InsightError" /\ disk' = disk)]_vars

\* C5 happens: the removal of a white-space id was refused over a non-empty store.
C5_Witness ==
    /\ result.op = "remove" /\ result.status = "InsightError" /\ result.id = <<" ">>
    /\ disk # <<>>

\* C6: a successful addDataset resolves to the ids added and not removed since,
\* each exactly once.
C6_AddReturnsLiveIds ==
    (result.op = "add" /\ result.status = "ok")
        => /\ Range(result.value) = DOMAIN live
           /\ \A id \in DOMAIN live : Count(result.value, id) = 1

----------------------------------------------------------------------------
(* Properties of ingest. *)

\* The archive has, in a course file's result array, an element without a
\* required field or with null for it.
HasDefectiveElement(content) ==
    /\ content.zip
    /\ \E i \in 1..Len(content.entries) :
          LET e == content.entries[i]
          IN  /\ ~e.dir /\ startsWith(e.name, CoursesDir)
              /\ e.data.json /\ e.data.hasResult /\ e.data.isArray
              /\ \E j \in 1..Len(e.data.result), k \in ElementKeys :
                    k \notin DOMAIN e.data.result[j] \/ e.data.result[j][k] = Null

\* C7: an addDataset that fails rejects with InsightError and leaves the directory
\* as it was, for both kinds.
C7_FailedAddIsInsightError ==
    [][(result'.op = "add" /\ result'.status # "ok")
        => (result'.status = "InsightError" /\ disk' = disk)]_vars

\* C8: no stored dataset has zero rows.
C8_NoEmptyDataset ==
    \A i \in 1..Len(listDatasets(disk)) : listDatasets(disk)[i].numRows >= 1

\* C9: a sections archive with an element that lacks a required field, or has null
\* for it, is rejected as a whole, whatever the element's Section.
C9_DefectiveElementRejected ==
    [][(result'.op = "add" /\ result'.kind = "sections" /\ HasDefectiveElement(result'.content))
        => (result'.status = "InsightError" /\ disk' = disk)]_vars

----------------------------------------------------------------------------
(* Properties of queries. *)

NumericFields == {"avg", "pass", "fail", "audit", "year", "lat", "lon", "seats"}

FieldsOfKind(kind) == IF kind = "sections" THEN SectionFields ELSE RoomFields

\* The stored document of dataset id.
DocumentOf(d, id) == d[CHOOSE f \in DOMAIN d : d[f].id = id]

RowsOf(doc) == IF doc.kind = "sections" THEN doc.sections ELSE doc.rooms

\* key is <id>_<field> for a field out of `fields`.
IsKeyOf(key, id, fields) == \E field \in fields : key = id \o <<"_", field>>

FieldIn(key) == key[Len(key)]

\* An object with exactly one member.
IsSingleton(x) == x.t = "object" /\ Len(x.v) = 1

\* The pattern has no "*" but as its first or last character.
NoInnerStar(pattern) == \A i \in 2..(Len(pattern) - 1) : pattern[i] # "*"

\* The filter is a WHERE node over the dataset id of the kind.
RECURSIVE IsFilter(_, _, _)
IsFilter(filter, id, kind) ==
    /\ IsSingleton(filter)
    /\ LET op == filter.v[1].k
           arg == filter.v[1].val
       IN  CASE op \in {<<"AND">>, <<"OR">>} ->
                   arg.t = "array" /\ arg.v # <<>> /\ \A i \in 1..Len(arg.v) : IsFilter(arg.v[i], id, kind)
             [] op = <<"NOT">> -> IsFilter(arg, id, kind)
             [] op \in {<<"GT">>, <<"LT">>, <<"EQ">>} ->
                   /\ IsSingleton(arg) /\ arg.v[1].val.t = "number"
                   /\ IsKeyOf(arg.v[1].k, id, FieldsOfKind(kind) \cap NumericFields)
             [] op = <<"IS">> ->
                   /\ IsSingleton(arg) /\ arg.v[1].val.t = "string" /\ NoInnerStar(arg.v[1].val.v)
                   /\ IsKeyOf(arg.v[1].k, id, FieldsOfKind(kind) \ NumericFields)
             [] OTHER -> FALSE

\* ORDER is a column, or a direction with a non-empty list of columns.
IsOrder(order, columns) ==
    \/ order.t = "string" /\ order \in Range(columns)
    \/ /\ order.t = "object" /\ {order.v[i].k : i \in 1..Len(order.v)} = {<<"dir">>, <<"keys">>} /\ Len(order.v) = 2
       /\ prop(order, <<"dir">>) \in {Str(<<"UP">>), Str(<<"DOWN">>)}
       /\ prop(order, <<"keys">>).t = "array" /\ prop(order, <<"keys">>).v # <<>>
       /\ Range(prop(order, <<"keys">>).v) \subseteq Range(columns)

\* The query is valid, has no TRANSFORMATIONS, and is over the stored dataset id.
IsPlainQueryOver(query, d, id) ==
    /\ id \in StoredIds(d)
    /\ query.t = "object" /\ Len(query.v) = 2
    /\ query.v[1].k = <<"WHERE">> /\ query.v[2].k = <<"OPTIONS">>
    /\ LET where == query.v[1].val
           options == query.v[2].val
           kind == DocumentOf(d, id).kind
       IN  /\ where = Obj(<<>>) \/ IsFilter(where, id, kind)
           /\ options.t = "object" /\ Len(options.v) \in {1, 2} /\ options.v[1].k = <<"COLUMNS">>
           /\ options.v[1].val.t = "array" /\ options.v[1].val.v # <<>>
           /\ \A i \in 1..Len(options.v[1].val.v) :
                 /\ options.v[1].val.v[i].t = "string"
                 /\ IsKeyOf(options.v[1].val.v[i].v, id, FieldsOfKind(kind))
           /\ Len(options.v) = 2 => /\ options.v[2].k = <<"ORDER">>
                                    /\ IsOrder(options.v[2].val, options.v[1].val.v)

\* The string matches the pattern: "*" at an end of the pattern stands for any
\* string, every other character for itself.
Matches(pattern, str) ==
    LET lead == pattern # <<>> /\ Head(pattern) = "*"
        trail == Len(pattern) >= 2 /\ pattern[Len(pattern)] = "*"
        rest == SubSeq(pattern, IF lead THEN 2 ELSE 1, IF trail THEN Len(pattern) - 1 ELSE Len(pattern))
    IN  CASE lead /\ trail -> \E i \in 0..(Len(str) - Len(rest)) : SubSeq(str, i + 1, i + Len(rest)) = rest
          [] lead -> endsWith(str, rest)
          [] trail -> startsWith(str, rest)
          [] OTHER -> str = rest

\* The row satisfies the filter.
RECURSIVE Satisfies(_, _)
Satisfies(row, filter) ==
    LET op == filter.v[1].k
        arg == filter.v[1].val
    IN  CASE op = <<"AND">> -> \A i \in 1..Len(arg.v) : Satisfies(row, arg.v[i])
          [] op = <<"OR">> -> \E i \in 1..Len(arg.v) : Satisfies(row, arg.v[i])
          [] op = <<"NOT">> -> ~Satisfies(row, arg)
          [] op = <<"GT">> -> row[FieldIn(arg.v[1].k)].v > arg.v[1].val.v
          [] op = <<"LT">> -> row[FieldIn(arg.v[1].k)].v < arg.v[1].val.v
          [] op = <<"EQ">> -> row[FieldIn(arg.v[1].k)].v = arg.v[1].val.v
          [] OTHER -> Matches(arg.v[1].val.v, row[FieldIn(arg.v[1].k)].v)

\* The records the query asks for: one per row that satisfies WHERE, with the
\* COLUMNS keys and the row's values.
Selected(query, d, id) ==
    LET where == query.v[1].val
        columns == strings(query.v[2].val.v[1].val)
        kept == SelectSeq(RowsOf(DocumentOf(d, id)), LAMBDA row : where = Obj(<<>>) \/ Satisfies(row, where))
    IN  [i \in 1..Len(kept) |-> [column \in Range(columns) |-> kept[i][FieldIn(column)]]]

\* The same elements, each as many times.
SameBag(s, t) == Len(s) = Len(t) /\ \A i \in 1..Len(s) : Count(s, s[i]) = Count(t, s[i])

\* C10: a valid query without TRANSFORMATIONS over a stored dataset returns one
\* record per row that satisfies WHERE and none for another row, each record with
\* exactly the COLUMNS keys and the row's values.
C10_PlainQuerySelects ==
    \A id \in StoredIds(disk) :
        (result.op = "query" /\ IsPlainQueryOver(result.query, disk, id))
            => (result.status = "ok" /\ SameBag(result.value, Selected(result.query, disk, id)))

----------------------------------------------------------------------------
(* Properties of queries with TRANSFORMATIONS, and of the limit. *)

ApplyOperators == {<<"MAX">>, <<"MIN">>, <<"AVG">>, <<"SUM">>, <<"COUNT">>}

\* The rule is {applyKey: {op: key}} with an apply key without underscore, an
\* operator, and a key of the dataset that is numeric unless the operator is COUNT.
IsApplyRule(rule, id, kind) ==
    /\ IsSingleton(rule) /\ rule.v[1].k # <<>> /\ ~includes(rule.v[1].k, "_")
    /\ IsSingleton(rule.v[1].val) /\ rule.v[1].val.v[1].k \in ApplyOperators
    /\ rule.v[1].val.v[1].val.t = "string"
    /\ IsKeyOf(rule.v[1].val.v[1].val.v, id,
               IF rule.v[1].val.v[1].k = <<"COUNT">> THEN FieldsOfKind(kind)
               ELSE FieldsOfKind(kind) \cap NumericFields)

\* The apply keys an APPLY array declares, in order.
ApplyKeys(apply) == [i \in 1..Len(apply.v) |-> apply.v[i].v[1].k]

\* The query is valid, has TRANSFORMATIONS, and is over the stored dataset id.
IsGroupedQueryOver(query, d, id) ==
    /\ id \in StoredIds(d)
    /\ query.t = "object" /\ Len(query.v) = 3
    /\ query.v[1].k = <<"WHERE">> /\ query.v[2].k = <<"OPTIONS">> /\ query.v[3].k = <<"TRANSFORMATIONS">>
    /\ LET where == query.v[1].val
           options == query.v[2].val
           transformations == query.v[3].val
           group == prop(transformations, <<"GROUP">>)
           apply == prop(transformations, <<"APPLY">>)
           kind == DocumentOf(d, id).kind
       IN  /\ where = Obj(<<>>) \/ IsFilter(where, id, kind)
           /\ transformations.t = "object" /\ Len(transformations.v) = 2
           /\ group.t = "array" /\ group.v # <<>>
           /\ \A i \in 1..Len(group.v) : group.v[i].t = "string" /\ IsKeyOf(group.v[i].v, id, FieldsOfKind(kind))
           /\ apply.t = "array" /\ \A i \in 1..Len(apply.v) : IsApplyRule(apply.v[i], id, kind)
           /\ \A i, j \in 1..Len(apply.v) : ApplyKeys(apply)[i] = ApplyKeys(apply)[j] => i = j
           /\ options.t = "object" /\ Len(options.v) \in {1, 2} /\ options.v[1].k = <<"COLUMNS">>
           /\ options.v[1].val.t = "array" /\ options.v[1].val.v # <<>>
           /\ \A i \in 1..Len(options.v[1].val.v) :
                 /\ options.v[1].val.v[i].t = "string"
                 /\ options.v[1].val.v[i] \in Range(group.v)
                    \/ options.v[1].val.v[i].v \in Range(ApplyKeys(apply))
           /\ \A i \in 1..Len(apply.v) : Str(ApplyKeys(apply)[i]) \in Range(options.v[1].val.v)
           /\ Len(options.v) = 2 => /\ options.v[2].k = <<"ORDER">>
                                    /\ IsOrder(options.v[2].val, options.v[1].val.v)

\* The number of rows a valid query over dataset id asks for: the rows that satisfy
\* WHERE, or with TRANSFORMATIONS the distinct values they have for the GROUP keys.
RowCount(query, d, id) ==
    LET where == query.v[1].val
        kept == SelectSeq(RowsOf(DocumentOf(d, id)), LAMBDA row : where = Obj(<<>>) \/ Satisfies(row, where))
        group == strings(prop(query.v[3].val, <<"GROUP">>))
    IN  IF Len(query.v) = 2 THEN Len(kept)
        ELSE Cardinality({[k \in 1..Len(group) |-> kept[i][FieldIn(group[k])]] : i \in 1..Len(kept)})

\* C11: a valid query over a stored dataset rejects with ResultTooLargeError when
\* its rows after WHERE, or its groups with TRANSFORMATIONS, are more than 5000;
\* otherwise it returns that many rows.
C11_LimitDecides ==
    \A id \in StoredIds(disk) :
        (result.op = "query" /\ (IsPlainQueryOver(result.query, disk, id) \/ IsGroupedQueryOver(result.query, disk, id)))
            => IF RowCount(result.query, disk, id) > limit THEN result.status = "ResultTooLargeError"
               ELSE result.status = "ok" /\ Len(result.value) = RowCount(result.query, disk, id)

\* The dataset id a key names: what stands before its first underscore.
IdNamed(key) == SubSeq(key, 1, (CHOOSE i \in 1..Len(key) : key[i] = "_" /\ \A j \in 1..(i - 1) : key[j] # "_") - 1)

\* The member names with an underscore in a tree of objects and arrays: the
\* dataset keys of a WHERE.
RECURSIVE KeysIn(_)
KeysIn(x) ==
    CASE x.t = "object" -> {x.v[i].k : i \in {j \in 1..Len(x.v) : includes(x.v[j].k, "_")}}
                           \cup UNION {KeysIn(x.v[i].val) : i \in 1..Len(x.v)}
      [] x.t = "array" -> UNION {KeysIn(x.v[i]) : i \in 1..Len(x.v)}
      [] OTHER -> {}

\* The strings with an underscore in a tree of objects and arrays: the dataset
\* keys of COLUMNS, ORDER, GROUP, and of the values of the APPLY rules.
RECURSIVE StringsIn(_)
StringsIn(x) ==
    CASE x.t = "object" -> UNION {StringsIn(x.v[i].val) : i \in 1..Len(x.v)}
      [] x.t = "array" -> UNION {StringsIn(x.v[i]) : i \in 1..Len(x.v)}
      [] x.t = "string" -> IF includes(x.v, "_") THEN {x.v} ELSE {}
      [] OTHER -> {}

\* The dataset ids that the keys of the query name.
NamedIds(query) ==
    {IdNamed(key) : key \in KeysIn(prop(query, <<"WHERE">>)) \cup StringsIn(prop(query, <<"OPTIONS">>))
                            \cup StringsIn(prop(query, <<"TRANSFORMATIONS">>))}

\* Every record of the result has, for each key of dataset id among its columns,
\* the value of one row of the dataset.
FromRowsOf(value, d, id) ==
    \A i \in 1..Len(value) :
        \E row \in Range(RowsOf(DocumentOf(d, id))) :
            \A column \in DOMAIN value[i] :
                (IsKeyOf(column, id, DOMAIN row) /\ value[i][column].t # "undefined")
                    => joined(value[i][column]) = joined(row[FieldIn(column)])

\* C12: a query whose dataset keys name no dataset id, or more than one, rejects
\* with InsightError; a query whose keys name one id is run against that dataset.
C12_OneDatasetId ==
    (result.op = "query" /\ result.query.t = "object")
        => IF Cardinality(NamedIds(result.query)) # 1 THEN result.status = "InsightError"
           ELSE result.status = "ok"
                    => \E id \in NamedIds(result.query) \cap StoredIds(disk) : FromRowsOf(result.value, disk, id)

\* C13: a query whose keys name a dataset id that is not stored (never added, or
\* added and removed since) rejects with InsightError.
C13_AbsentIsInsightError ==
    (result.op = "query" /\ NamedIds(result.query) \cap DOMAIN live = {}) => result.status = "InsightError"

\* C14: IS of a string with a pattern is InsightError when the pattern has a "*"
\* that is not its first or last character; otherwise it is true exactly when the
\* string matches the pattern, "*" at an end standing for any string and every
\* other character for itself.
C14_IsMatchesLiterally ==
    result.op = "is"
        => IF ~NoInnerStar(result.pattern) THEN result.status = "InsightError"
           ELSE result.status = (IF Matches(result.pattern, result.contentValue) THEN "T" ELSE "F")

\* The tree of filters has an AND or an OR with an empty array.
RECURSIVE HasEmptyLogic(_)
HasEmptyLogic(filter) ==
    /\ IsSingleton(filter)
    /\ LET op == filter.v[1].k
           arg == filter.v[1].val
       IN  \/ op \in {<<"AND">>, <<"OR">>} /\ arg.t = "array"
              /\ (arg.v = <<>> \/ \E i \in 1..Len(arg.v) : HasEmptyLogic(arg.v[i]))
           \/ op = <<"NOT">> /\ HasEmptyLogic(arg)

\* C15: a query whose WHERE has an AND or an OR with an empty array, at any depth,
\* rejects with InsightError.
C15_EmptyLogicRejected ==
    (result.op = "query" /\ HasEmptyLogic(prop(result.query, <<"WHERE">>))) => result.status = "InsightError"

\* The apply keys that the APPLY rules of the query declare.
DeclaredApplyKeys(query) ==
    LET apply == prop(prop(query, <<"TRANSFORMATIONS">>), <<"APPLY">>)
    IN  IF apply.t # "array" THEN {}
        ELSE {apply.v[i].v[1].k : i \in {j \in 1..Len(apply.v) : apply.v[j].t = "object" /\ apply.v[j].v # <<>>}}

\* The query has COLUMNS, an array of strings.
HasColumns(query) ==
    /\ query.t = "object"
    /\ prop(prop(query, <<"OPTIONS">>), <<"COLUMNS">>).t = "array"
    /\ \A i \in 1..Len(prop(prop(query, <<"OPTIONS">>), <<"COLUMNS">>).v) :
          prop(prop(query, <<"OPTIONS">>), <<"COLUMNS">>).v[i].t = "string"

ColumnsOf(query) == Range(strings(prop(prop(query, <<"OPTIONS">>), <<"COLUMNS">>)))

\* The column is a key of a field of the kind of a stored dataset that the query
\* names.
IsDatasetKey(column, query, d) ==
    \E id \in NamedIds(query) \cap StoredIds(d) : IsKeyOf(column, id, FieldsOfKind(DocumentOf(d, id).kind))

\* C16: a query rejects with InsightError when one of its COLUMNS is neither a key
\* of a field of the dataset's kind nor a declared apply key, and when it declares
\* an apply key that is not in COLUMNS, whatever rows WHERE selects.
C16_ColumnsAreKeys ==
    (/\ result.op = "query" /\ HasColumns(result.query)
     /\ \/ \E column \in ColumnsOf(result.query) :
              ~IsDatasetKey(column, result.query, disk) /\ column \notin DeclaredApplyKeys(result.query)
        \/ \E key \in DeclaredApplyKeys(result.query) : key \notin ColumnsOf(result.query))
        => result.status = "InsightError"

\* The strings of GROUP, for a query with TRANSFORMATIONS.
GroupOf(query) ==
    LET group == prop(prop(query, <<"TRANSFORMATIONS">>), <<"GROUP">>)
    IN  IF group.t = "array" THEN Range(group.v) ELSE {}

\* C17: a query with TRANSFORMATIONS rejects with InsightError when one of its
\* COLUMNS is a dataset key that GROUP does not list.
C17_ColumnsInGroup ==
    (/\ result.op = "query" /\ HasColumns(result.query) /\ hasProp(result.query, <<"TRANSFORMATIONS">>)
     /\ \E column \in ColumnsOf(result.query) : includes(column, "_") /\ Str(column) \notin GroupOf(result.query))
        => result.status = "InsightError"

\* The query's APPLY is an array with the same apply key in two of its rules.
HasRepeatedApplyKey(query) ==
    LET apply == prop(prop(query, <<"TRANSFORMATIONS">>), <<"APPLY">>)
    IN  /\ apply.t = "array"
        /\ \E i, j \in 1..Len(apply.v) :
              /\ i < j /\ IsSingleton(apply.v[i]) /\ IsSingleton(apply.v[j])
              /\ apply.v[i].v[1].k = apply.v[j].v[1].k

\* C18: a query whose APPLY declares one apply key in two rules rejects with
\* InsightError.
C18_ApplyKeysUnique ==
    (result.op = "query" /\ HasRepeatedApplyKey(result.query)) => result.status = "InsightError"

\* ORDER is a string among the columns, or an object with dir "UP" or "DOWN" and
\* a non-empty array keys of columns.
IsOrderOf(order, columns) ==
    \/ order.t = "string" /\ order \in Range(columns)
    \/ /\ order.t = "object"
       /\ prop(order, <<"dir">>) \in {Str(<<"UP">>), Str(<<"DOWN">>)}
       /\ prop(order, <<"keys">>).t = "array" /\ prop(order, <<"keys">>).v # <<>>
       /\ Range(prop(order, <<"keys">>).v) \subseteq Range(columns)

\* C19: a query with an ORDER that is neither a column nor a direction with a
\* non-empty list of columns rejects with InsightError.
C19_BadOrderRejected ==
    (/\ result.op = "query" /\ HasColumns(result.query)
     /\ hasProp(prop(result.query, <<"OPTIONS">>), <<"ORDER">>)
     /\ ~IsOrderOf(prop(prop(result.query, <<"OPTIONS">>), <<"ORDER">>),
                   prop(prop(result.query, <<"OPTIONS">>), <<"COLUMNS">>).v))
        => result.status = "InsightError"

\* The keys of a valid ORDER in priority order, and its direction.
OrderKeys(order) == IF order.t = "string" THEN <<order.v>> ELSE strings(prop(order, <<"keys">>))

Ascending(order) == order.t = "string" \/ prop(order, <<"dir">>) = Str(<<"UP">>)

\* The key is numeric: an apply key, or a key of a numeric field.
IsNumericKey(key) == ~includes(key, "_") \/ FieldIn(key) \in NumericFields

\* The number a value of a numeric key stands for, in hundredths.
NumberOf(x) == IF x.t = "string" THEN hundredths(parseFloat(x.v)) ELSE hundredths(x)

\* Negative, zero or positive as the value x of the key is before, equal to or
\* after the value y: by numeric value for a numeric key, lexicographically for
\* another.
KeyCompare(key, x, y) == IF IsNumericKey(key) THEN NumberOf(x) - NumberOf(y) ELSE localeCompare(x.v, y.v)

\* The comparison of two records on the first of the keys on which they differ.
RowCompare(keys, a, b) ==
    LET differ == {i \in 1..Len(keys) : KeyCompare(keys[i], a[keys[i]], b[keys[i]]) # 0}
        first == CHOOSE i \in differ : \A j \in differ : i <= j
    IN  IF differ = {} THEN 0 ELSE KeyCompare(keys[first], a[keys[first]], b[keys[first]])

\* C20: in the result of a query with ORDER each two adjacent records respect the
\* order: on the first ORDER key on which they differ the earlier record is not
\* after the later one for a string ORDER or dir UP, not before it for dir DOWN;
\* numeric keys compare by value and string keys lexicographically.
C20_AdjacentRowsOrdered ==
    (/\ result.op = "query" /\ result.status = "ok" /\ HasColumns(result.query)
     /\ hasProp(prop(result.query, <<"OPTIONS">>), <<"ORDER">>)
     /\ IsOrderOf(prop(prop(result.query, <<"OPTIONS">>), <<"ORDER">>),
                  prop(prop(result.query, <<"OPTIONS">>), <<"COLUMNS">>).v))
        => LET order == prop(prop(result.query, <<"OPTIONS">>), <<"ORDER">>)
           IN  \A i \in 1..(Len(result.value) - 1) :
                   IF Ascending(order)
                   THEN RowCompare(OrderKeys(order), result.value[i], result.value[i + 1]) <= 0
                   ELSE RowCompare(OrderKeys(order), result.value[i], result.value[i + 1]) >= 0

----------------------------------------------------------------------------
(* Properties of the groups. *)

\* The rows of dataset id that the WHERE of a valid query keeps.
Kept(query, d, id) ==
    SelectSeq(RowsOf(DocumentOf(d, id)), LAMBDA row : query.v[1].val = Obj(<<>>) \/ Satisfies(row, query.v[1].val))

\* The GROUP keys of a query with TRANSFORMATIONS.
GroupKeys(query) == strings(prop(prop(query, <<"TRANSFORMATIONS">>), <<"GROUP">>))

\* The values a row has for the GROUP keys.
TupleOf(row, group) == [k \in 1..Len(group) |-> row[FieldIn(group[k])]]

\* C21: a valid query with TRANSFORMATIONS resolves with exactly one row per
\* distinct tuple of GROUP-key values among the rows WHERE selects, whatever
\* characters the values hold ("|" included).
C21_OneRowPerTuple ==
    \A id \in StoredIds(disk) :
        (result.op = "query" /\ IsGroupedQueryOver(result.query, disk, id))
            => /\ result.status = "ok"
               /\ Len(result.value)
                      = Cardinality({TupleOf(Kept(result.query, disk, id)[i], GroupKeys(result.query)) :
                                        i \in 1..Len(Kept(result.query, disk, id))})

\* C22: in each row of a grouped result, every GROUP column holds the value the
\* rows of one group have for that field, with the field's type: some selected row
\* has, for every GROUP column of the result row, the very value of the column.
C22_GroupColumnsKeepValues ==
    \A id \in StoredIds(disk) :
        (result.op = "query" /\ IsGroupedQueryOver(result.query, disk, id) /\ result.status = "ok")
            => \A i \in 1..Len(result.value) :
                   \E j \in 1..Len(Kept(result.query, disk, id)) :
                       \A column \in Range(GroupKeys(result.query)) \cap DOMAIN result.value[i] :
                           result.value[i][column] = Kept(result.query, disk, id)[j][FieldIn(column)]

----------------------------------------------------------------------------
(* Properties of the store read back. *)

\* The datasets a successful add may have saved: one per order in which its
\* parallel tasks can complete.
SavedBy(outcome) ==
    {Dataset(outcome.id, ingest(outcome.content, outcome.kind, order).rows, outcome.kind) :
        order \in Orders(parallelTasks(outcome.content, outcome.kind))}

\* C23: the dataset a successful add saved is read back from the store with the
\* same id, the same kind and rows equal field by field, by id (as a query loads
\* it) and by enumeration (as the listing loads it), for either kind.
C23_StoredIsReadBack ==
    (result.op = "add" /\ result.status = "ok")
        => \E saved \in SavedBy(result) :
               /\ loadFromDisk(disk, result.id) = [ok |-> TRUE, dataset |-> saved]
               /\ \E i \in 1..Len(getAllDatasets(disk)) : getAllDatasets(disk)[i] = saved

----------------------------------------------------------------------------
(* Properties of operations in flight together. *)

\* The settled calls of addDataset.
SettledAdds == {c \in DOMAIN calls : calls[c].op = "add" /\ calls[c].status # "pending"}

\* The rows of a sections archive, in file order.
ArchiveRows(content) == processSectionRows(content, [i \in 1..Len(courseFiles(content)) |-> i]).rows

\* C24: of two addDataset calls for the same valid id that was absent before
\* them, at most one resolves, the other rejects with InsightError, and the
\* stored dataset is the one the resolved call wrote.
C24_OneAddWins ==
    \A c, e \in SettledAdds :
        (c # e /\ calls[c].id = calls[e].id /\ calls[c].status = "ok" /\ Len(calls) = 2)
            => /\ calls[e].status = "InsightError"
               /\ filePathOf(calls[c].id) \in DOMAIN disk
               /\ disk[filePathOf(calls[c].id)] = calls[c].jsonData

\* C25: when two addDataset calls of kind Sections for different ids run on the
\* same facade, the dataset a resolved call stored holds exactly the rows of its
\* own archive.
C25_OwnRowsOnly ==
    \A c, e \in DOMAIN calls :
        (/\ calls[c].op = "add" /\ calls[e].op = "add" /\ calls[c].id # calls[e].id /\ calls[c].f = calls[e].f
         /\ calls[c].status = "ok")
            => /\ filePathOf(calls[c].id) \in DOMAIN disk
               /\ SameBag(disk[filePathOf(calls[c].id)].sections, jsonRows(ArchiveRows(calls[c].content)))

\* The ids the calls of addDataset and removeDataset are about.
ChangedIds == {calls[c].id : c \in {e \in DOMAIN calls : calls[e].op \in {"add", "remove"}}}

\* What the listing holds for a dataset as it is stored in the directory d.
EntryOf(d, id) == [id |-> id, kind |-> DocumentOf(d, id).kind, numRows |-> Len(RowsOf(DocumentOf(d, id)))]

\* The row counts that are complete for id: the one stored before the calls, and
\* those of the archives the calls add it with.
CompleteCounts(id) ==
    {Len(RowsOf(DocumentOf(RaceStore, i))) : i \in {id} \cap StoredIds(RaceStore)}
    \cup {archiveRowCount(calls[c].content, "sections") :
             c \in {e \in DOMAIN calls : calls[e].op = "add" /\ calls[e].id = id /\ calls[e].pc \notin {"exists", "begin"}}}

\* C26: a listDatasets call that runs beside an addDataset or removeDataset
\* resolves; it lists every other stored dataset with its id, kind and number of
\* rows, and the changed id with a complete number of rows or not at all.
C26_ListingIsConsistent ==
    \A c \in DOMAIN calls :
        (calls[c].op = "list" /\ calls[c].status # "pending")
            => /\ calls[c].status = "ok"
               /\ \A id \in StoredIds(RaceStore) \ ChangedIds :
                      EntriesFor(calls[c].value, id) = <<EntryOf(RaceStore, id)>>
               /\ \A i \in 1..Len(calls[c].value) :
                      calls[c].value[i].id \in ChangedIds
                          => calls[c].value[i].numRows \in CompleteCounts(calls[c].value[i].id)

----------------------------------------------------------------------------
(* Properties of the rooms ingest. *)

\* The archive is a zip whose index.htm has a building table.
HasBuildingTable(content) ==
    /\ content.zip /\ zipHasFile(content, IndexName)
    /\ \E i \in 1..Len(zipFile(content, IndexName).data.tables) :
          hasValidBuilding(zipFile(content, IndexName).data.tables[i])

\* The rows of the building table that have a title cell and an address cell.
BuildingRows(content) ==
    LET doc == zipFile(content, IndexName).data
    IN  SelectSeq(doc.tables[firstValidTable(doc)].rows, LAMBDA row : row.titleCell /\ row.addressCell)

\* The room-table rows of a building's page, none without page or room table.
RoomRowsOf(content, row) ==
    IF zipHasFile(content, row.href) /\ zipFile(content, row.href).data.roomTable
    THEN zipFile(content, row.href).data.rows
    ELSE <<>>

\* The row has its number, capacity, furniture, type and href.
IsCompleteRoomRow(row) == \A k \in RoomRowKeys : row[k].t = "string" /\ row[k].v # <<>>

\* The rooms of the complete rows of the pages of the geocoded buildings.
RoomsOfCompleteRows(content) ==
    LET geocoded == SelectSeq(BuildingRows(content), LAMBDA row : row.geo = "ok")
    IN  concatAll([i \in 1..Len(geocoded) |->
                      LET complete == SelectSeq(RoomRowsOf(content, geocoded[i]), IsCompleteRoomRow)
                      IN  [j \in 1..Len(complete) |-> parseRoomRow(complete[j], parseBuildingRow(geocoded[i])).room]])

\* A room-table row of a geocoded building lacks a required field.
HasDefectiveRoomRow(content) ==
    \E i \in 1..Len(BuildingRows(content)) :
        /\ BuildingRows(content)[i].geo = "ok"
        /\ \E j \in 1..Len(RoomRowsOf(content, BuildingRows(content)[i])) :
              ~IsCompleteRoomRow(RoomRowsOf(content, BuildingRows(content)[i])[j])

\* C27: a rooms add whose archive has a room-table row without a required field
\* skips the row: it resolves and stores the rooms of the remaining rows of every
\* geocoded building (no geocoder request fails, and some room remains).
C27_DefectiveRoomSkipped ==
    (/\ result.op = "add" /\ result.kind = "rooms" /\ HasBuildingTable(result.content)
     /\ \A i \in 1..Len(BuildingRows(result.content)) : BuildingRows(result.content)[i].geo # "fail"
     /\ HasDefectiveRoomRow(result.content)
     /\ RoomsOfCompleteRows(result.content) # <<>>)
        => /\ result.status = "ok"
           /\ filePathOf(result.id) \in DOMAIN disk
           /\ SameBag(disk[filePathOf(result.id)].rooms, jsonRows(RoomsOfCompleteRows(result.content)))

\* C28: a rooms add in which the geocoder fails for a building (an {error} reply,
\* a failed request or an unparsable reply) drops that building only: it resolves
\* and stores the rooms of the geocoded buildings (every room-table row of theirs
\* is complete, and some room remains).
C28_GeocoderFailureDropsBuilding ==
    (/\ result.op = "add" /\ result.kind = "rooms" /\ HasBuildingTable(result.content)
     /\ \E i \in 1..Len(BuildingRows(result.content)) : BuildingRows(result.content)[i].geo \in {"error", "fail"}
     /\ ~HasDefectiveRoomRow(result.content)
     /\ RoomsOfCompleteRows(result.content) # <<>>)
        => /\ result.status = "ok"
           /\ filePathOf(result.id) \in DOMAIN disk
           /\ disk[filePathOf(result.id)].kind = "rooms"
           /\ SameBag(jsonRows(RoomsOfCompleteRows(result.content)), disk[filePathOf(result.id)].rooms)

----------------------------------------------------------------------------
(* Properties of the operations that only read. *)

\* C29: a listDatasets or a performQuery, resolved or rejected, leaves the set
\* of stored datasets and the contents of every stored dataset as they were.
C29_ListAndQueryReadOnly ==
    [][result'.op \in {"list", "query"} => disk' = disk]_vars

\* A query was rejected over a store that holds a dataset.
C29_Witness ==
    /\ result.op = "query"
    /\ result.status = "InsightError"
    /\ StoredIds(disk) # {}

-----------------------------------------------------------------------------
(* Properties of the server. *)

\* C30: the handler of DELETE /dataset/:id sends exactly one response on every
\* path: 400 for an invalid id, 404 for an id that is not stored, 200 after a
\* removal; for an invalid id it does not call the facade.
C30_OneResponsePerDelete ==
    result.op = "DELETE"
        => /\ Len(result.responses) = 1
           /\ IsBadId(result.id) => (result.responses[1] = 400 /\ ~result.facadeCalled)
           /\ result.status = "NotFoundError" => result.responses[1] = 404
           /\ result.status = "ok" => result.responses[1] = 200

====
